---- MODULE Spec2Model ----
(***************************************************************************)
(* A model of the DCU CTIP API example scripts                             *)
(*   dcuctipapi.py, dcuctipapi2stix.py and dcuctiptsfapi.py:               *)
(* the paginated fetch loop with its 429 retry sub-loop, the post-loop     *)
(* processing, the try/except/finally shell of the fetch function, the     *)
(* sequence of dataset fetches in main, and the record-to-STIX mapping.    *)
(***************************************************************************)
EXTENDS Integers, Sequences, FiniteSets, TLC

(***************************************************************************)
(* Bounds of the model                                                     *)
(***************************************************************************)
\* largest x-total-row-count the server advertises
MaxTotal == 2
\* largest number of records in one chunk
MaxChunk == 2
\* largest number of KeyboardInterrupts delivered in one run
MaxInterrupts == 1

(***************************************************************************)
(* Program constants                                                       *)
(***************************************************************************)
CTIP_API_OFFSET_INIT == 1
CTIP_API_MAX_RETRIES == 3
CTIP_API_MAX_RETRY_DELAY_SECONDS == 10
CTIP_API_RETRY_DELAY_MULTIPLIER == 3
CTIP_API_INFECTED == "Infected"
CTIP_API_C2 == "C2"
CTIP_API_FRAUD_TSF == "TSFReportAScam"

HTTP_OK == 200
HTTP_BAD_REQUEST == 400
HTTP_FORBIDDEN == 403
HTTP_TOO_MANY_REQUESTS == 429
\* a representative of "any other status"
HTTP_SERVER_ERROR == 500

\* the three scripts of the repository
Scripts == {"dcuctipapi", "dcuctipapi2stix", "dcuctiptsfapi"}

\* the datasets main fetches, in order
Datasets(s) ==
  IF s = "dcuctiptsfapi" THEN <<CTIP_API_FRAUD_TSF>>
  ELSE <<CTIP_API_INFECTED, CTIP_API_C2>>

(***************************************************************************)
(* Decoded JSON values: tagged, so that null, strings and numbers can be   *)
(* told apart as Python tells them apart.                                  *)
(***************************************************************************)
Null == [t |-> "null"]
Str(s) == [t |-> "str", v |-> s]
Num(n) == [t |-> "int", v |-> n]
\* a float, held as the text str() gives for it
Flt(s) == [t |-> "float", v |-> s]
\* a JSON object
Obj(f) == [t |-> "obj", v |-> f]

IsStr(x) == x.t = "str"
\* Python truthiness of a decoded JSON scalar
Truthy(x) ==
  CASE x.t = "null" -> FALSE
    [] x.t = "str" -> x.v # ""
    [] x.t = "int" -> x.v # 0
    [] x.t = "float" -> x.v \notin {"0.0", "-0.0"}
    [] x.t = "obj" -> DOMAIN x.v # {}
    [] OTHER -> TRUE

\* str(x) of a decoded JSON scalar
PyStr(x) ==
  CASE x.t = "null" -> "None"
    [] x.t = "int" -> ToString(x.v)
    [] OTHER -> x.v

\* str.lower() on the label strings the model uses
Lower(s) ==
  CASE s \in {"High", "HIGH", "hIgH", "high"} -> "high"
    [] s \in {"Medium", "MEDIUM", "medium"} -> "medium"
    [] s \in {"Low", "LOW", "low"} -> "low"
    [] s \in {"Critical", "critical"} -> "critical"
    [] s \in {"Red", "RED", "red"} -> "red"
    [] s \in {"Amber", "AMBER", "aMbEr", "amber"} -> "amber"
    [] s \in {"Green", "GREEN", "green"} -> "green"
    [] s \in {"White", "white"} -> "white"
    [] s \in {"GET", "get"} -> "get"
    [] s \in {"HTTP/1.1", "http/1.1"} -> "http/1.1"
    [] OTHER -> s

\* a complete record, carrying every field either converter reads
FullRecord ==
  [DateTimeReceivedUtc |-> Str("2026-01-13T10:00:00Z"),
   ThreatConfidence |-> Str("High"),
   TLP |-> Str("Amber"),
   Malware |-> Str("B106-Agent"),
   ThreatCode |-> Str("B106"),
   DataFeed |-> Str("Botnet"),
   SourcedFrom |-> Str("Sinkhole"),
   SourceIp |-> Str("198.51.100.7"),
   SourcePort |-> Num(50123),
   DestinationIp |-> Str("203.0.113.9"),
   DestinationPort |-> Num(80),
   HttpMethod |-> Str("GET"),
   HttpRequest |-> Str("/gate.php"),
   HttpVersion |-> Str("HTTP/1.1"),
   HttpHost |-> Str("c2.example"),
   HttpDomain |-> Str("c2.example"),
   HttpUserAgent |-> Str("Mozilla"),
   HttpReferrer |-> Null,
   SourceIpAsnNumber |-> Num(64500),
   SourceIpAsnOrgName |-> Str("ExampleNet"),
   SourceIpLatitude |-> Flt("47.37"),
   SourceIpLongitude |-> Flt("0.0"),
   SourceIpCountryCode |-> Str("CH"),
   SourceIpRegion |-> Str("ZH"),
   SourceIpCity |-> Str("Zurich"),
   DestinationIpAsnNumber |-> Num(64501),
   DestinationIpAsnOrgName |-> Str("HostCo"),
   DestinationIpLatitude |-> Flt("52.52"),
   DestinationIpLongitude |-> Flt("13.4"),
   DestinationIpCountryCode |-> Str("DE"),
   DestinationIpRegion |-> Str("BE"),
   DestinationIpCity |-> Str("Berlin"),
   CustomField1 |-> Str("cf1"),
   CustomField2 |-> Null,
   CustomField3 |-> Str(""),
   CustomField4 |-> Null,
   CustomField5 |-> Null,
   Payload |-> Str("payload"),
   Signatures |-> Null]

\* d with key k removed (a record that lacks the field)
Without(d, k) == [x \in (DOMAIN d) \ {k} |-> d[x]]

\* the record identifiers a response chunk may carry
RecordIds == {"ok", "nomalware"}

\* the decoded JSON object of one element of a chunk
Record(id) ==
  CASE id = "ok" -> FullRecord
    [] id = "nomalware" -> Without(FullRecord, "Malware")

(***************************************************************************)
(* Record Mapper (dcuctipapi2stix.py)                                      *)
(***************************************************************************)
GetThreatConfidenceInfoInfected(ctipThreatConfidence) ==
  CASE Lower(ctipThreatConfidence) = "high" -> <<85, "compromised">>
    [] Lower(ctipThreatConfidence) = "medium" -> <<50, "malicious-activity">>
    [] Lower(ctipThreatConfidence) = "low" -> <<25, "anomalous-activity">>
    [] OTHER -> <<0, "anomalous-activity">>

\* GetThreatConfidenceInfoC2 comparing without .lower()
GetThreatConfidenceInfoC2_CaseSensitive(ctipThreatConfidence) ==
  CASE ctipThreatConfidence = "high" -> <<85, "command-and-control">>
    [] ctipThreatConfidence = "medium" -> <<50, "command-and-control">>
    [] ctipThreatConfidence = "low" -> <<25, "command-and-control">>
    [] OTHER -> <<0, "anomalous-activity">>

GetThreatConfidenceInfoC2(ctipThreatConfidence) ==
  CASE Lower(ctipThreatConfidence) = "high" -> <<85, "command-and-control">>
    [] Lower(ctipThreatConfidence) = "medium" -> <<50, "command-and-control">>
    [] Lower(ctipThreatConfidence) = "low" -> <<25, "command-and-control">>
    [] OTHER -> <<0, "anomalous-activity">>

\* GetTlpInfo passing an unrecognized level on as TLP: White
GetTlpInfo_DefaultWhite(ctipTlp) ==
  CASE Lower(ctipTlp) = "red" -> <<"TLP: Red", "TLP_RED">>
    [] Lower(ctipTlp) = "amber" -> <<"TLP: Amber", "TLP_AMBER">>
    [] Lower(ctipTlp) = "green" -> <<"TLP: Green", "TLP_GREEN">>
    [] OTHER -> <<"TLP: White", "TLP_WHITE">>

GetTlpInfo(ctipTlp) ==
  CASE Lower(ctipTlp) = "red" -> <<"TLP: Red", "TLP_RED">>
    [] Lower(ctipTlp) = "amber" -> <<"TLP: Amber", "TLP_AMBER">>
    [] Lower(ctipTlp) = "green" -> <<"TLP: Green", "TLP_GREEN">>
    [] OTHER -> <<"TLP: Red", "TLP_RED">>

\* GetHttpProtocol comparing the text of the port
GetHttpProtocol_Text(port) ==
  CASE PyStr(port) = "80" -> "http"
    [] PyStr(port) = "443" -> "https"
    [] OTHER -> "unknown"

\* port is a decoded JSON value
GetHttpProtocol(port) ==
  CASE port = Null -> "unknown"
    [] ~Truthy(port) -> "unknown"
    [] port \in {Num(80), Flt("80.0")} -> "http"
    [] port \in {Num(443), Flt("443.0")} -> "https"
    [] OTHER -> "unknown"

\* the timestamps dateutil's isoparse accepts, among those the model uses
ValidTimestamps == {"2026-01-13T10:00:00Z"}

\* GetStixTimestamp raises on a value that is not an ISO 8601 string
GetStixTimestampRaises(ctipTimestamp) ==
  ~IsStr(ctipTimestamp) \/ ctipTimestamp.v \notin ValidTimestamps

\* '' if not x else x
OrEmpty(x) == IF Truthy(x) THEN x ELSE Str("")

\* "if str(x) == '0.0': f = 0.0001": the coordinate handed to stix2.Location
NormalizeCoordinate(x) == IF PyStr(x) = "0.0" THEN Flt("0.0001") ELSE x

\* the SHA-256 values stix2.File accepts (64 hex digits), among those the
\* model uses
ValidSha256 == {"9f86d081884c7d659a2feaa0c55ad015a3bf4f1b2b0b822cd15d6c15b0f00a08"}

\* the inner try of ConvertCtipC2ToStix raises: a missing or non-string
\* Malware, no Signatures object, no Sha256 in it, or a hash stix2.File
\* rejects
FileEntityRaises(d) ==
  \/ "Malware" \notin DOMAIN d
  \/ ~IsStr(d.Malware)
  \/ "Signatures" \notin DOMAIN d
  \/ d.Signatures.t # "obj"
  \/ "Sha256" \notin DOMAIN d.Signatures.v
  \/ ~IsStr(d.Signatures.v.Sha256)
  \/ d.Signatures.v.Sha256.v \notin ValidSha256

\* the fields ConvertCtipInfectedToStix subscripts: a missing one is a KeyError
InfectedKeys ==
  {"DateTimeReceivedUtc", "ThreatConfidence", "TLP", "Malware", "ThreatCode",
   "DataFeed", "SourcedFrom", "SourceIp", "DestinationIp", "HttpMethod",
   "HttpRequest", "HttpVersion", "HttpHost", "HttpUserAgent", "HttpReferrer",
   "SourcePort", "DestinationPort", "SourceIpAsnNumber", "SourceIpAsnOrgName",
   "SourceIpLatitude", "SourceIpLongitude", "SourceIpCountryCode",
   "SourceIpRegion", "SourceIpCity", "CustomField1", "CustomField2",
   "CustomField3", "CustomField4", "CustomField5", "Payload"}

\* the fields ConvertCtipC2ToStix subscripts outside its inner try
C2Keys ==
  {"DateTimeReceivedUtc", "ThreatConfidence", "TLP", "Malware", "ThreatCode",
   "DataFeed", "SourcedFrom", "DestinationIp", "HttpRequest", "HttpDomain",
   "DestinationPort", "DestinationIpAsnNumber", "DestinationIpAsnOrgName",
   "DestinationIpLatitude", "DestinationIpLongitude",
   "DestinationIpCountryCode", "DestinationIpRegion", "DestinationIpCity",
   "CustomField1", "CustomField2", "CustomField3", "CustomField4",
   "CustomField5"}

\* the exceptions the mapping code itself raises before a bundle exists:
\* KeyError on a missing field, AttributeError on .lower() of a non-string,
\* TypeError on 'DataSet: ' + a non-string
LabelsRaise(d) ==
  \/ GetStixTimestampRaises(d.DateTimeReceivedUtc)
  \/ ~IsStr(d.ThreatConfidence)
  \/ ~IsStr(d.TLP)
  \/ ~IsStr(d.DataFeed)
  \/ ~IsStr(d.SourcedFrom)

ConvertInfectedRaises(d) ==
  \/ ~(InfectedKeys \subseteq DOMAIN d)
  \/ LabelsRaise(d)
  \/ (Truthy(d.HttpMethod) /\ ~IsStr(d.HttpMethod))
  \/ (Truthy(d.HttpVersion) /\ ~IsStr(d.HttpVersion))

ConvertC2Raises(d) ==
  \/ ~(C2Keys \subseteq DOMAIN d)
  \/ LabelsRaise(d)

\* a Note that references the primary subject only
StixNote_NoTraffic(d, field, subject) ==
  [type |-> "note", field |-> field, content |-> OrEmpty(d[field]),
   object_refs |-> <<subject>>]

\* a Note for one custom field or the payload
StixNote(d, field, subject) ==
  [type |-> "note", field |-> field, content |-> OrEmpty(d[field]),
   object_refs |-> <<subject, "network-traffic">>]

\* the bundle of a convertible record, as the sequence of its objects
ConvertCtipInfectedToStix(d) ==
  LET threatConfidenceInfo == GetThreatConfidenceInfoInfected(d.ThreatConfidence.v)
      stixCtipTlp == GetTlpInfo(d.TLP.v)
  IN  << [type |-> "indicator", confidence |-> threatConfidenceInfo[1],
          category |-> threatConfidenceInfo[2], tlp |-> stixCtipTlp[1],
          marking |-> stixCtipTlp[2], subject |-> d.SourceIp],
         [type |-> "malware", name |-> d.Malware],
         [type |-> "network-traffic", src_port |-> d.SourcePort,
          dst_port |-> d.DestinationPort,
          protocols |-> <<GetHttpProtocol(d.DestinationPort)>>],
         [type |-> "ipv4-addr", value |-> d.SourceIp],
         [type |-> "ipv4-addr", value |-> d.DestinationIp],
         [type |-> "autonomous-system",
          number |-> IF Truthy(d.SourceIpAsnNumber) THEN d.SourceIpAsnNumber ELSE Num(0),
          name |-> OrEmpty(d.SourceIpAsnOrgName)],
         [type |-> "location", latitude |-> NormalizeCoordinate(d.SourceIpLatitude),
          longitude |-> NormalizeCoordinate(d.SourceIpLongitude)],
         StixNote(d, "CustomField1", "indicator"),
         StixNote(d, "CustomField2", "indicator"),
         StixNote(d, "CustomField3", "indicator"),
         StixNote(d, "CustomField4", "indicator"),
         StixNote(d, "CustomField5", "indicator"),
         StixNote(d, "Payload", "indicator") >>

\* ConvertCtipC2ToStix bundling the six leading entities only
ConvertCtipC2ToStix_NoNotes(d) ==
  LET threatConfidenceInfo == GetThreatConfidenceInfoC2(d.ThreatConfidence.v)
      stixCtipTlp == GetTlpInfo(d.TLP.v)
  IN  << [type |-> "infrastructure", confidence |-> threatConfidenceInfo[1],
          category |-> threatConfidenceInfo[2], tlp |-> stixCtipTlp[1],
          marking |-> stixCtipTlp[2], subject |-> d.DestinationIp],
         [type |-> "malware", name |-> d.Malware],
         [type |-> "network-traffic", dst_port |-> d.DestinationPort,
          protocols |-> <<GetHttpProtocol(d.DestinationPort)>>],
         [type |-> "ipv4-addr", value |-> d.DestinationIp],
         [type |-> "autonomous-system",
          number |-> IF Truthy(d.DestinationIpAsnNumber) THEN d.DestinationIpAsnNumber ELSE Num(0),
          name |-> OrEmpty(d.DestinationIpAsnOrgName)],
         [type |-> "location", latitude |-> NormalizeCoordinate(d.DestinationIpLatitude),
          longitude |-> NormalizeCoordinate(d.DestinationIpLongitude)] >>

\* with the file entity after the location when the inner try succeeds
ConvertCtipC2ToStix(d) ==
  LET threatConfidenceInfo == GetThreatConfidenceInfoC2(d.ThreatConfidence.v)
      stixCtipTlp == GetTlpInfo(d.TLP.v)
      filehash == IF FileEntityRaises(d) THEN <<>>
                  ELSE << [type |-> "file", name |-> d.Malware,
                           sha256 |-> d.Signatures.v.Sha256] >>
  IN  << [type |-> "infrastructure", confidence |-> threatConfidenceInfo[1],
          category |-> threatConfidenceInfo[2], tlp |-> stixCtipTlp[1],
          marking |-> stixCtipTlp[2], subject |-> d.DestinationIp],
         [type |-> "malware", name |-> d.Malware],
         [type |-> "network-traffic", dst_port |-> d.DestinationPort,
          protocols |-> <<GetHttpProtocol(d.DestinationPort)>>],
         [type |-> "ipv4-addr", value |-> d.DestinationIp],
         [type |-> "autonomous-system",
          number |-> IF Truthy(d.DestinationIpAsnNumber) THEN d.DestinationIpAsnNumber ELSE Num(0),
          name |-> OrEmpty(d.DestinationIpAsnOrgName)],
         [type |-> "location", latitude |-> NormalizeCoordinate(d.DestinationIpLatitude),
          longitude |-> NormalizeCoordinate(d.DestinationIpLongitude)] >>
      \o filehash \o
      << StixNote(d, "CustomField1", "infrastructure"),
         StixNote(d, "CustomField2", "infrastructure"),
         StixNote(d, "CustomField3", "infrastructure"),
         StixNote(d, "CustomField4", "infrastructure"),
         StixNote(d, "CustomField5", "infrastructure") >>

\* whether converting record id for the dataset raises
ConvertRaises(ctipApi, id) ==
  IF ctipApi = CTIP_API_INFECTED THEN ConvertInfectedRaises(Record(id))
  ELSE ConvertC2Raises(Record(id))

\* the bundle appended for record id
StixBundle(ctipApi, id) ==
  [src |-> id,
   objects |-> IF ctipApi = CTIP_API_INFECTED
               THEN ConvertCtipInfectedToStix(Record(id))
               ELSE ConvertCtipC2ToStix(Record(id))]

\* ProcessLoop with the per-record try/except missing: the first record whose
\* conversion raises ends the batch
RECURSIVE ProcessLoop_Abort(_, _, _)
ProcessLoop_Abort(ctipApi, ctipData, stixData) ==
  IF ctipData = <<>> THEN stixData
  ELSE IF ConvertRaises(ctipApi, Head(ctipData))
       THEN stixData
       ELSE ProcessLoop_Abort(ctipApi, Tail(ctipData),
                              Append(stixData, StixBundle(ctipApi, Head(ctipData))))

\* ProcessCtipData of dcuctipapi2stix: the per-record loop, in input order;
\* a record whose conversion raises is logged and skipped
RECURSIVE ProcessLoop(_, _, _)
ProcessLoop(ctipApi, ctipData, stixData) ==
  IF ctipData = <<>> THEN stixData
  ELSE IF ConvertRaises(ctipApi, Head(ctipData))
       THEN ProcessLoop(ctipApi, Tail(ctipData), stixData)
       ELSE ProcessLoop(ctipApi, Tail(ctipData),
                        Append(stixData, StixBundle(ctipApi, Head(ctipData))))

\* ProcessCtipData with the C2 branch missing
ProcessCtipData_InfectedOnly(ctipApi, ctipData) ==
  IF ctipApi = CTIP_API_INFECTED
  THEN ProcessLoop(ctipApi, ctipData, <<>>)
  ELSE <<>>

ProcessCtipData(ctipApi, ctipData) ==
  IF ctipApi \in {CTIP_API_INFECTED, CTIP_API_C2}
  THEN ProcessLoop(ctipApi, ctipData, <<>>)
  ELSE <<>>

\* ProcessCtipData of dcuctipapi: the log line subscripts these fields of every
\* record, so a record that lacks one raises KeyError out of the function
ApiLoggedKeys(ctipApi) ==
  IF ctipApi = CTIP_API_INFECTED
  THEN {"Malware", "ThreatCode", "ThreatConfidence", "SourceIp"}
  ELSE {"Malware", "ThreatCode", "ThreatConfidence", "DestinationIp"}

ApiProcessRaises(ctipApi, ctipData) ==
  \E i \in 1..Len(ctipData) :
     ~(ApiLoggedKeys(ctipApi) \subseteq DOMAIN Record(ctipData[i]))

(***************************************************************************)
(* The HTTP server: what requests.get may return                           *)
(***************************************************************************)
\* the decoded chunks: every list of at most MaxChunk records
Chunks == UNION {[1..n -> RecordIds] : n \in 0..MaxChunk}

\* a response: status, the x-total-row-count header, the decoded body, and
\* whether header and body decode at all (int(), gzip.decompress, json.loads)
Responses ==
  {[status |-> HTTP_OK, total |-> t, chunk |-> c, decodable |-> TRUE] :
       t \in 0..MaxTotal, c \in Chunks}
  \cup {[status |-> HTTP_OK, total |-> 0, chunk |-> <<>>, decodable |-> FALSE]}
  \cup {[status |-> st, total |-> 0, chunk |-> <<>>, decodable |-> TRUE] :
       st \in {HTTP_TOO_MANY_REQUESTS, HTTP_BAD_REQUEST, HTTP_FORBIDDEN,
               HTTP_SERVER_ERROR}}

\* apiResponse before the first request
NoResponse == [status |-> 0, total |-> 0, chunk |-> <<>>, decodable |-> TRUE]

(***************************************************************************)
(* State                                                                   *)
(***************************************************************************)
VARIABLES
  script,                   \* which of the three scripts runs
  startTimestampLocal,      \* main's local of that name: "unbound" or "bound"
  saveCtipDataFiles,        \* --save-ctip-data
  saveStixDataFiles,        \* --save-stix-data (dcuctipapi2stix only)
  pc,                       \* position: setup, main, loop, retry, handle, post,
                            \*   finally, caught, done, exited, crashed
  ds,                       \* number of dataset fetches main has started
  returned,                 \* per finished fetch, what main holds of its
                            \*   result: main only takes len() of the lists
  offset,
  totalRowCount,
  totalDownloadedDataCount,
  ctipDataDownload,
  ctipStixData,
  gzFileCount,
  retryAttempt,
  retryDelay,
  apiResponse,
  \* history of the current loop iteration
  nReqOffset,               \* requests.get calls of the iteration
  firstStatus,              \* status of the first response of the iteration
  all429,                   \* every request of the iteration was answered,
                            \*   and with a 429
  \* history of the current dataset fetch
  firstTotal,               \* x-total-row-count of the first 200 response, or -1
  hdrChanged,               \* a later 200 response carried another value
  nFirstTry,                \* requests.get calls at the top of the while loop
  excSeen,                  \* an except clause around the loop has run
  exitPath,                 \* how the while loop was left
  written,                  \* files written and post-loop steps run
  \* history of the run
  interrupts,               \* KeyboardInterrupts delivered
  \* one call of ConvertCtipInfectedToStix / ConvertCtipC2ToStix
  mapPc,                    \* position in the converter, "off" outside it
  mapApi,                   \* the dataset whose converter runs
  objCtipData,              \* the record handed to the converter
  mapOut                    \* the locals of the converter computed so far

vars == <<startTimestampLocal, script, saveCtipDataFiles, saveStixDataFiles, pc, ds, returned,
          offset, totalRowCount, totalDownloadedDataCount, ctipDataDownload,
          ctipStixData, gzFileCount, retryAttempt, retryDelay, apiResponse,
          nReqOffset, firstStatus, all429, firstTotal, hdrChanged, nFirstTry,
          excSeen,
          exitPath, written, interrupts, mapPc, mapApi, objCtipData, mapOut>>

config == <<script, saveCtipDataFiles, saveStixDataFiles>>
locals == <<offset, totalRowCount, totalDownloadedDataCount, ctipDataDownload,
            ctipStixData, gzFileCount>>
\* the state of one loop iteration: the response in hand and the sub-loop
iter == <<retryAttempt, retryDelay, apiResponse, nReqOffset, firstStatus, all429>>
seenVars == <<firstTotal, hdrChanged, nFirstTry>>
\* the state of one converter call
mapper == <<mapPc, mapApi, objCtipData, mapOut>>
\* the state of the fetch
fetch == <<startTimestampLocal, script, saveCtipDataFiles, saveStixDataFiles, pc, ds, returned,
           offset, totalRowCount, totalDownloadedDataCount, ctipDataDownload,
           ctipStixData, gzFileCount, retryAttempt, retryDelay, apiResponse,
           nReqOffset, firstStatus, all429, firstTotal, hdrChanged, nFirstTry,
          excSeen,
           exitPath, written, interrupts>>

ctipApi == Datasets(script)[ds]
\* the converter locals before they are assigned
NoLocals == [threatConfidenceInfo |-> <<>>, stixCtipTlp |-> <<>>,
             protocols |-> <<>>, loc |-> <<>>, bundle |-> <<>>]

\* no file written yet
NoFiles == [error |-> 0, data |-> 0, stix |-> 0, process |-> 0]

\* AfterLoop with the post-loop steps left out
AfterLoop_SkipsPost == "finally"

\* where control goes when the while loop is left by break
AfterLoop == IF script = "dcuctiptsfapi" THEN "finally" ELSE "post"

\* retryAttempt, retryDelay and apiResponse are assigned afresh before they
\* are next read; once a response has been handled the model drops their dead
\* values together with the history of the iteration
IterDone ==
  /\ retryAttempt' = 0
  /\ retryDelay' = CTIP_API_MAX_RETRY_DELAY_SECONDS
  /\ apiResponse' = NoResponse
  /\ nReqOffset' = 0
  /\ firstStatus' = 0
  /\ all429' = FALSE

Init ==
  /\ script \in Scripts
  /\ saveCtipDataFiles \in BOOLEAN
  /\ saveStixDataFiles \in (IF script = "dcuctipapi2stix" THEN BOOLEAN ELSE {FALSE})
  /\ startTimestampLocal = "unbound"
  /\ pc = "setup"
  /\ ds = 0
  /\ returned = <<>>
  /\ offset = CTIP_API_OFFSET_INIT
  /\ totalRowCount = 0
  /\ totalDownloadedDataCount = 0
  /\ ctipDataDownload = <<>>
  /\ ctipStixData = <<>>
  /\ gzFileCount = 0
  /\ retryAttempt = 0
  /\ retryDelay = CTIP_API_MAX_RETRY_DELAY_SECONDS
  /\ apiResponse = NoResponse
  /\ nReqOffset = 0
  /\ firstStatus = 0
  /\ all429 = FALSE
  /\ firstTotal = -1
  /\ hdrChanged = FALSE
  /\ nFirstTry = 0
  /\ excSeen = FALSE
  /\ exitPath = "none"
  /\ written = NoFiles
  /\ interrupts = 0
  /\ mapPc = "off"
  /\ mapApi = CTIP_API_INFECTED
  /\ objCtipData = FullRecord
  /\ mapOut = NoLocals

(***************************************************************************)
(* main: one call of the fetch function per dataset                        *)
(***************************************************************************)
\* the first statements of main's try block: the directories exist or are
\* created, and the start timestamps are taken
MainSetup ==
  /\ pc = "setup"
  /\ startTimestampLocal' = "bound"
  /\ pc' = "main"
  /\ UNCHANGED <<mapper, config, ds, returned, locals, iter, seenVars, excSeen,
                 exitPath, written, interrupts>>

\* os.makedirs raises (the directory cannot be created): "except Exception"
\* of main logs the error, before any start timestamp is taken
MainSetupFails ==
  /\ pc = "setup"
  /\ pc' = "caught"
  /\ UNCHANGED <<mapper, config, startTimestampLocal, ds, returned, locals, iter,
                 seenVars, excSeen, exitPath, written, interrupts>>

\* the finally block of main computes endTimestampLocal - startTimestampLocal
\* and logs the summary: with the local unbound the subtraction raises
\* UnboundLocalError, which leaves main
SummaryTarget(timestamp) == IF timestamp = "bound" THEN "done" ELSE "crashed"

\* the finally block of main after "except Exception" has logged the error
MainFinally ==
  /\ pc = "caught"
  /\ pc' = SummaryTarget(startTimestampLocal)
  /\ UNCHANGED <<mapper, config, startTimestampLocal, ds, returned, locals, iter,
                 seenVars, excSeen, exitPath, written, interrupts>>

\* main calls CtipApi / CtipFraudApi, which initialises its locals
MainCallFetch ==
  /\ pc = "main"
  /\ ds < Len(Datasets(script))
  /\ ds' = ds + 1
  /\ pc' = "loop"
  /\ offset' = CTIP_API_OFFSET_INIT
  /\ totalRowCount' = 0
  /\ totalDownloadedDataCount' = 0
  /\ ctipDataDownload' = <<>>
  /\ ctipStixData' = <<>>
  /\ gzFileCount' = 0
  /\ IterDone
  /\ firstTotal' = -1
  /\ hdrChanged' = FALSE
  /\ nFirstTry' = 0
  /\ excSeen' = FALSE
  /\ exitPath' = "none"
  /\ written' = NoFiles
  /\ UNCHANGED <<mapper, config, startTimestampLocal, returned, interrupts>>

\* every dataset fetched: the totals are logged and the finally block of main
\* logs the summary
MainSummary ==
  /\ pc = "main"
  /\ ds = Len(Datasets(script))
  /\ pc' = SummaryTarget(startTimestampLocal)
  /\ UNCHANGED <<mapper, config, startTimestampLocal, ds, returned, locals, iter, seenVars, excSeen,
                 exitPath, written, interrupts>>

(***************************************************************************)
(* The fetch loop                                                          *)
(***************************************************************************)
\* the history of a received response
Receive(r) ==
  /\ firstTotal' = IF r.status = HTTP_OK /\ r.decodable /\ firstTotal = -1
                   THEN r.total ELSE firstTotal
  /\ hdrChanged' = (hdrChanged \/ (r.status = HTTP_OK /\ r.decodable
                                   /\ firstTotal # -1 /\ r.total # firstTotal))

\* CaughtTarget without the except clauses and the returning finally block:
\* the exception leaves the fetch function and ends the run in main
CaughtTarget_Propagates == "exited"

\* where an exception raised inside the try statement of the fetch function
\* goes: an except clause logs it and the finally block returns
CaughtTarget == "finally"

\* top of the while loop: the request for the current offset is answered by r;
\* a 429 enters the retry sub-loop
SendRequest(r) ==
  /\ pc = "loop"
  /\ apiResponse' = r
  /\ nReqOffset' = 1
  /\ firstStatus' = r.status
  /\ Receive(r)
  /\ nFirstTry' = nFirstTry + 1
  /\ all429' = (r.status = HTTP_TOO_MANY_REQUESTS)
  /\ IF r.status = HTTP_TOO_MANY_REQUESTS
     THEN /\ retryAttempt' = 0
          /\ retryDelay' = CTIP_API_MAX_RETRY_DELAY_SECONDS
          /\ pc' = "retry"
     ELSE /\ UNCHANGED <<retryAttempt, retryDelay>>
          /\ pc' = "handle"
  /\ UNCHANGED <<mapper, config, startTimestampLocal, ds, returned, locals, excSeen, exitPath, written,
                 interrupts>>

\* requests.get raises a transport exception: caught by the except clauses
\* around the loop
SendRequestFails ==
  /\ pc = "loop"
  /\ nReqOffset' = 1
  /\ nFirstTry' = nFirstTry + 1
  /\ excSeen' = TRUE
  /\ exitPath' = "exception"
  /\ pc' = CaughtTarget
  /\ UNCHANGED <<mapper, config, startTimestampLocal, ds, returned, locals, retryAttempt, retryDelay,
                 apiResponse, firstStatus, all429, firstTotal, hdrChanged, written,
                 interrupts>>

\* BackoffDelay adding the initial delay
BackoffDelay_Additive(delay) == delay + CTIP_API_MAX_RETRY_DELAY_SECONDS

\* "retryDelay *= CTIP_API_RETRY_DELAY_MULTIPLIER" in the bare except of the
\* sub-loop
BackoffDelay(delay) == delay * CTIP_API_RETRY_DELAY_MULTIPLIER

\* RetryCondition with "<=" for "<": one attempt too many
RetryCondition_LE(attempt) == attempt <= CTIP_API_MAX_RETRIES

\* the loop condition of the retry sub-loop
RetryCondition(attempt) == attempt < CTIP_API_MAX_RETRIES

\* one pass of the retry sub-loop: sleep, count the attempt, repeat the
\* request; a 200 breaks out, anything else goes round again
RetryRequest(r) ==
  /\ pc = "retry"
  /\ retryAttempt' = retryAttempt + 1
  /\ apiResponse' = r
  /\ all429' = (all429 /\ r.status = HTTP_TOO_MANY_REQUESTS)
  /\ nReqOffset' = nReqOffset + 1
  /\ Receive(r)
  /\ UNCHANGED nFirstTry
  /\ pc' = IF r.status = HTTP_OK \/ ~RetryCondition(retryAttempt')
           THEN "handle" ELSE "retry"
  /\ UNCHANGED <<mapper, config, startTimestampLocal, ds, returned, locals, retryDelay, firstStatus,
                 excSeen, exitPath, written, interrupts>>

\* the repeated request raises: the bare except multiplies the delay, the
\* previous response stays the current one
RetryRequestFails ==
  /\ pc = "retry"
  /\ retryAttempt' = retryAttempt + 1
  /\ nReqOffset' = nReqOffset + 1
  /\ retryDelay' = BackoffDelay(retryDelay)
  /\ all429' = FALSE
  /\ pc' = IF RetryCondition(retryAttempt') THEN "retry" ELSE "handle"
  /\ UNCHANGED <<mapper, config, startTimestampLocal, ds, returned, locals, apiResponse, firstStatus,
                 firstTotal, hdrChanged, nFirstTry, excSeen, exitPath, written,
                 interrupts>>

\* ChunkExit with the completion test one record late
ChunkExit_OneLate(downloadedDataCount, newOffset, total) ==
  IF downloadedDataCount > 0
  THEN IF newOffset > total + 1 THEN "complete" ELSE "continue"
  ELSE "zero"

\* ChunkExit with ">=" for ">" in the completion test
ChunkExit_GE(downloadedDataCount, newOffset, total) ==
  IF downloadedDataCount > 0
  THEN IF newOffset >= total THEN "complete" ELSE "continue"
  ELSE "zero"

\* ChunkExit with the zero-record test placed under the completion test: an
\* empty chunk ends the loop only once the offset has passed the total
ChunkExit_ZeroContinues(downloadedDataCount, newOffset, total) ==
  IF newOffset > total
  THEN IF downloadedDataCount > 0 THEN "complete" ELSE "zero"
  ELSE "continue"

\* lines "if (downloadedDataCount > 0): ... if (offset > totalRowCount): break
\* ... else: break": how a decoded chunk of downloadedDataCount records leaves
\* or continues the while loop, newOffset being the advanced offset
ChunkExit(downloadedDataCount, newOffset, total) ==
  IF downloadedDataCount > 0
  THEN IF newOffset > total THEN "complete" ELSE "continue"
  ELSE "zero"

\* NextOffset leaving the offset where it is
NextOffset_Stuck(off, downloadedDataCount, saved) == off

\* NextOffset stepping back once the first chunk is past
NextOffset_Rewind(off, downloadedDataCount, saved) ==
  IF off > CTIP_API_OFFSET_INIT THEN off - 1 ELSE off + downloadedDataCount

\* NextOffset advancing by the saved-to-file count
NextOffset_Saved(off, downloadedDataCount, saved) == off + saved

\* "offset += downloadedDataCount"; saved is the row count read back from the
\* chunk file (dcuctiptsfapi with saving on), which the code only logs
NextOffset(off, downloadedDataCount, saved) == off + downloadedDataCount

\* ReadTotalRowCount keeping the value of the first 200 response
ReadTotalRowCount_Once(header) == firstTotal

\* "totalRowCount = int(apiResponse.headers['x-total-row-count'])", run for
\* every 200 response
ReadTotalRowCount(header) == header

\* dcuctipapi, dcuctipapi2stix: a 200 response is decoded and handled
HandleOk ==
  /\ pc = "handle"
  /\ script # "dcuctiptsfapi"
  /\ apiResponse.status = HTTP_OK
  /\ apiResponse.decodable
  /\ LET downloadedDataCount == Len(apiResponse.chunk)
         newOffset == IF downloadedDataCount > 0
                      THEN NextOffset(offset, downloadedDataCount, downloadedDataCount)
                      ELSE offset
         total == ReadTotalRowCount(apiResponse.total)
         exit == ChunkExit(downloadedDataCount, newOffset, total)
     IN  /\ totalRowCount' = total
         /\ totalDownloadedDataCount' = totalDownloadedDataCount + downloadedDataCount
         /\ ctipDataDownload' = ctipDataDownload \o apiResponse.chunk
         /\ offset' = newOffset
         /\ IF exit = "continue"
            THEN pc' = "loop" /\ UNCHANGED exitPath
            ELSE pc' = AfterLoop /\ exitPath' = exit
  /\ IterDone
  /\ UNCHANGED <<mapper, config, startTimestampLocal, ds, returned, ctipStixData, gzFileCount, seenVars,
                 excSeen, written, interrupts>>

\* dcuctiptsfapi: a 200 response is counted, saved as a chunk file when saving
\* is on (saved is the row count read back from that file), processed, and
\* the offset advanced
HandleOkTsf(saved) ==
  /\ pc = "handle"
  /\ script = "dcuctiptsfapi"
  /\ apiResponse.status = HTTP_OK
  /\ apiResponse.decodable
  /\ LET downloadedDataCount == Len(apiResponse.chunk)
         saving == downloadedDataCount > 0 /\ saveCtipDataFiles
         newOffset == IF downloadedDataCount > 0
                      THEN NextOffset(offset, downloadedDataCount,
                                      IF saving THEN saved ELSE downloadedDataCount)
                      ELSE offset
         total == ReadTotalRowCount(apiResponse.total)
         exit == ChunkExit(downloadedDataCount, newOffset, total)
     IN  /\ IF saving THEN saved \in 0..downloadedDataCount ELSE saved = 0
         /\ totalRowCount' = total
         /\ totalDownloadedDataCount' = totalDownloadedDataCount + downloadedDataCount
         /\ gzFileCount' = IF saving THEN gzFileCount + 1 ELSE gzFileCount
         /\ offset' = newOffset
         /\ IF exit = "continue"
            THEN pc' = "loop" /\ UNCHANGED exitPath
            ELSE pc' = AfterLoop /\ exitPath' = exit
  /\ IterDone
  /\ UNCHANGED <<mapper, config, startTimestampLocal, ds, returned, ctipDataDownload, ctipStixData,
                 seenVars, excSeen, written, interrupts>>

\* HandleOkTsfWriteFails with the chunk counted only after it was saved
HandleOkTsfWriteFails_Uncounted ==
  /\ pc = "handle"
  /\ script = "dcuctiptsfapi"
  /\ apiResponse.status = HTTP_OK
  /\ apiResponse.decodable
  /\ Len(apiResponse.chunk) > 0
  /\ saveCtipDataFiles
  /\ totalRowCount' = ReadTotalRowCount(apiResponse.total)
  /\ gzFileCount' = gzFileCount + 1
  /\ excSeen' = TRUE
  /\ exitPath' = "exception"
  /\ pc' = CaughtTarget
  /\ IterDone
  /\ UNCHANGED <<mapper, config, startTimestampLocal, ds, returned, offset,
                 totalDownloadedDataCount, ctipDataDownload, ctipStixData,
                 seenVars, written, interrupts>>

\* dcuctiptsfapi: WriteDataToFile or GetSavedDataCount raises on the chunk
\* file; the chunk is already counted, the offset is not advanced
HandleOkTsfWriteFails ==
  /\ pc = "handle"
  /\ script = "dcuctiptsfapi"
  /\ apiResponse.status = HTTP_OK
  /\ apiResponse.decodable
  /\ Len(apiResponse.chunk) > 0
  /\ saveCtipDataFiles
  /\ totalRowCount' = ReadTotalRowCount(apiResponse.total)
  /\ totalDownloadedDataCount' = totalDownloadedDataCount + Len(apiResponse.chunk)
  /\ gzFileCount' = gzFileCount + 1
  /\ excSeen' = TRUE
  /\ exitPath' = "exception"
  /\ pc' = CaughtTarget
  /\ IterDone
  /\ UNCHANGED <<mapper, config, startTimestampLocal, ds, returned, offset, ctipDataDownload, ctipStixData,
                 seenVars, written, interrupts>>

\* a 200 response whose header or body does not decode: int(), gzip or json
\* raises, caught around the loop
HandleUndecodable ==
  /\ pc = "handle"
  /\ apiResponse.status = HTTP_OK
  /\ ~apiResponse.decodable
  /\ excSeen' = TRUE
  /\ exitPath' = "exception"
  /\ pc' = CaughtTarget
  /\ IterDone
  /\ UNCHANGED <<mapper, config, startTimestampLocal, ds, returned, locals, seenVars, written, interrupts>>

\* SaveErrorResponseHtml not writing the file
SaveErrorResponseHtml_Skipped(w) == w

\* SaveErrorResponseHtml: the body of the response is written to a file
SaveErrorResponseHtml(w) == [w EXCEPT !.error = @ + 1]

\* HandleErrorStatus putting the offset back to its initial value
HandleErrorStatus_Rewinds ==
  /\ pc = "handle"
  /\ apiResponse.status # HTTP_OK
  /\ written' = SaveErrorResponseHtml(written)
  /\ exitPath' = "error"
  /\ pc' = AfterLoop
  /\ offset' = CTIP_API_OFFSET_INIT
  /\ UNCHANGED <<mapper, config, startTimestampLocal, ds, returned, totalRowCount,
                 totalDownloadedDataCount, ctipDataDownload, ctipStixData,
                 gzFileCount, iter, seenVars, excSeen, interrupts>>

\* 400, 403 and every other status (a 429 left by an exhausted sub-loop
\* included): the body is saved by SaveErrorResponseHtml and the loop left by
\* break; the response and the sub-loop counters stay what they are until
\* the function returns
HandleErrorStatus ==
  /\ pc = "handle"
  /\ apiResponse.status # HTTP_OK
  /\ written' = SaveErrorResponseHtml(written)
  /\ exitPath' = "error"
  /\ pc' = AfterLoop
  /\ UNCHANGED <<mapper, config, startTimestampLocal, ds, returned, locals, iter, seenVars, excSeen,
                 interrupts>>

(***************************************************************************)
(* After the loop (dcuctipapi, dcuctipapi2stix)                            *)
(***************************************************************************)
\* PostWrites with the combined data file written and then opened again
PostWrites_Reopened ==
  [written EXCEPT
     !.process = IF totalDownloadedDataCount > 0 THEN @ + 1 ELSE @,
     !.stix = IF script = "dcuctipapi2stix" /\ totalDownloadedDataCount > 0
                 /\ saveStixDataFiles THEN @ + 1 ELSE @,
     !.data = IF saveCtipDataFiles /\ Len(ctipDataDownload) > 0 THEN @ + 2 ELSE @]

\* the files the post-loop steps write
PostWrites ==
  [written EXCEPT
     !.process = IF totalDownloadedDataCount > 0 THEN @ + 1 ELSE @,
     !.stix = IF script = "dcuctipapi2stix" /\ totalDownloadedDataCount > 0
                 /\ saveStixDataFiles THEN @ + 1 ELSE @,
     !.data = IF saveCtipDataFiles /\ Len(ctipDataDownload) > 0 THEN @ + 1 ELSE @]

\* ProcessCtipData when something was downloaded, then SaveCtipDataToFile
PostLoop ==
  /\ pc = "post"
  /\ \/ script = "dcuctipapi2stix"
     \/ totalDownloadedDataCount = 0
     \/ ~ApiProcessRaises(ctipApi, ctipDataDownload)
  /\ ctipStixData' = IF script = "dcuctipapi2stix" /\ totalDownloadedDataCount > 0
                     THEN ProcessCtipData(ctipApi, ctipDataDownload)
                     ELSE ctipStixData
  /\ written' = PostWrites
  /\ pc' = "finally"
  /\ UNCHANGED <<mapper, config, startTimestampLocal, ds, returned, offset, totalRowCount,
                 totalDownloadedDataCount, ctipDataDownload, gzFileCount,
                 iter, seenVars, excSeen, exitPath, interrupts>>

\* dcuctipapi: the log line of ProcessCtipData raises KeyError on a record
\* that lacks a logged field; caught by "except Exception", nothing is saved
PostLoopRaises ==
  /\ pc = "post"
  /\ script = "dcuctipapi"
  /\ totalDownloadedDataCount > 0
  /\ ApiProcessRaises(ctipApi, ctipDataDownload)
  /\ written' = [written EXCEPT !.process = @ + 1]
  /\ excSeen' = TRUE
  /\ pc' = CaughtTarget
  /\ UNCHANGED <<mapper, config, startTimestampLocal, ds, returned, locals, iter, seenVars, exitPath,
                 interrupts>>

\* what "return" in the finally block hands to main
ReturnValue ==
  CASE script = "dcuctipapi" -> ctipDataDownload
    [] script = "dcuctipapi2stix" -> ctipStixData
    [] script = "dcuctiptsfapi" -> totalDownloadedDataCount

\* what main reads of a returned value: len() of a list, the count itself
Held(v) == IF script = "dcuctiptsfapi" THEN v ELSE Len(v)

\* the finally block: log the totals and return
Return ==
  /\ pc = "finally"
  /\ returned' = Append(returned, Held(ReturnValue))
  /\ pc' = "main"
  /\ IterDone
  /\ UNCHANGED <<mapper, config, startTimestampLocal, ds, locals, seenVars, excSeen, exitPath,
                 written, interrupts>>

(***************************************************************************)
(* KeyboardInterrupt                                                       *)
(***************************************************************************)
\* in main, outside the fetch function: "except KeyboardInterrupt" logs,
\* calls sys.exit(0), and the finally block of main logs the summary
InterruptMain ==
  /\ pc = "main"
  /\ interrupts < MaxInterrupts
  /\ interrupts' = interrupts + 1
  /\ pc' = "exited"
  /\ UNCHANGED <<mapper, config, startTimestampLocal, ds, returned, locals, iter, seenVars, excSeen,
                 exitPath, written>>

\* in the fetch function, outside the try of the retry sub-loop: no except
\* clause matches a KeyboardInterrupt, and the return in the finally block
\* discards it
InterruptFetch ==
  /\ pc \in {"loop", "handle", "post"}
  /\ interrupts < MaxInterrupts
  /\ interrupts' = interrupts + 1
  /\ exitPath' = IF exitPath = "none" THEN "interrupt" ELSE exitPath
  /\ pc' = "finally"
  /\ IterDone
  /\ UNCHANGED <<mapper, config, startTimestampLocal, ds, returned, locals, seenVars, excSeen, written>>

\* during time.sleep of the sub-loop: the bare except swallows it and
\* multiplies the delay; the attempt is not counted
InterruptSleep ==
  /\ pc = "retry"
  /\ interrupts < MaxInterrupts
  /\ interrupts' = interrupts + 1
  /\ retryDelay' = BackoffDelay(retryDelay)
  /\ all429' = FALSE
  /\ UNCHANGED <<mapper, config, startTimestampLocal, pc, ds, returned, locals, retryAttempt, apiResponse,
                 nReqOffset, firstStatus, seenVars, excSeen, exitPath, written>>

\* during requests.get of the sub-loop: swallowed as well, the attempt counted
InterruptRetryRequest ==
  /\ pc = "retry"
  /\ interrupts < MaxInterrupts
  /\ interrupts' = interrupts + 1
  /\ retryAttempt' = retryAttempt + 1
  /\ nReqOffset' = nReqOffset + 1
  /\ retryDelay' = BackoffDelay(retryDelay)
  /\ all429' = FALSE
  /\ pc' = IF RetryCondition(retryAttempt') THEN "retry" ELSE "handle"
  /\ UNCHANGED <<mapper, config, startTimestampLocal, ds, returned, locals, apiResponse, firstStatus,
                 firstTotal, hdrChanged, nFirstTry, excSeen, exitPath, written>>

\* in the finally block, before its return: propagates to main
InterruptFinally ==
  /\ pc = "finally"
  /\ interrupts < MaxInterrupts
  /\ interrupts' = interrupts + 1
  /\ pc' = "exited"
  /\ UNCHANGED <<mapper, config, startTimestampLocal, ds, returned, locals, iter, seenVars, excSeen,
                 exitPath, written>>

Next ==
  \/ MainSetup
  \/ MainSetupFails
  \/ MainFinally
  \/ MainCallFetch
  \/ MainSummary
  \/ \E r \in Responses : SendRequest(r)
  \/ SendRequestFails
  \/ \E r \in Responses : RetryRequest(r)
  \/ RetryRequestFails
  \/ HandleOk
  \/ \E saved \in 0..MaxChunk : HandleOkTsf(saved)
  \/ HandleOkTsfWriteFails
  \/ HandleUndecodable
  \/ HandleErrorStatus
  \/ PostLoop
  \/ PostLoopRaises
  \/ Return
  \/ InterruptMain
  \/ InterruptFetch
  \/ InterruptSleep
  \/ InterruptRetryRequest
  \/ InterruptFinally

Spec == Init /\ [][Next]_vars

TypeOK ==
  /\ pc \in {"setup", "caught", "crashed", "main", "loop", "retry", "handle",
            "post", "finally", "done", "exited"}
  /\ startTimestampLocal \in {"unbound", "bound"}
  /\ offset \in Nat /\ offset >= 1
  /\ retryAttempt \in 0..CTIP_API_MAX_RETRIES
  /\ nFirstTry \in Nat

(***************************************************************************)
(* One converter call (dcuctipapi2stix.py): the records json.loads may     *)
(* hand to ConvertCtipInfectedToStix / ConvertCtipC2ToStix, and the        *)
(* converter run statement by statement.                                   *)
(***************************************************************************)
\* ThreatConfidence values of a record
ConfidenceValues ==
  {Str("High"), Str("HIGH"), Str("hIgH"), Str("high"), Str("Medium"),
   Str("medium"), Str("Low"), Str("LOW"), Str("Critical"), Str(""), Null}

\* TLP values of a record
TlpValues ==
  {Str("Red"), Str("RED"), Str("Amber"), Str("aMbEr"), Str("amber"),
   Str("Green"), Str("GREEN"), Str("White"), Str(""), Null}

\* DestinationPort values of a record
PortValues ==
  {Null, Num(0), Num(80), Num(443), Num(8080), Num(8), Flt("0.0"),
   Flt("80.0"), Flt("443.0"), Flt("80.5"), Str("80"), Str("")}

\* latitude / longitude values of a record
CoordinateValues == {Flt("0.0"), Num(0), Flt("-0.0"), Flt("47.37"), Num(13)}

\* CustomField1..5 / Payload values of a record
TextValues == {Null, Str(""), Str("x")}

\* Signatures values of a record: null, an object without Sha256, and objects
\* with a well-formed, a malformed, an empty and a null Sha256
SignaturesValues ==
  {Null, Obj([Md5 |-> Str("d41d8cd98f00b204e9800998ecf8427e")]),
   Obj([Sha256 |-> Str("9f86d081884c7d659a2feaa0c55ad015a3bf4f1b2b0b822cd15d6c15b0f00a08")]),
   Obj([Sha256 |-> Str("9f86d081")]),
   Obj([Sha256 |-> Str("")]),
   Obj([Sha256 |-> Null])}

\* the decoded records handed to a converter
MapInputs ==
  {[FullRecord EXCEPT !.ThreatConfidence = c, !.TLP = t] :
       c \in ConfidenceValues, t \in TlpValues}
  \cup {[FullRecord EXCEPT !.DestinationPort = p] : p \in PortValues}
  \cup {[FullRecord EXCEPT !.SourceIpLatitude = la, !.SourceIpLongitude = lo,
                           !.DestinationIpLatitude = la,
                           !.DestinationIpLongitude = lo] :
       la \in CoordinateValues, lo \in CoordinateValues}
  \cup {[FullRecord EXCEPT !.CustomField1 = a, !.CustomField2 = b,
                           !.CustomField5 = c, !.Payload = q] :
       a \in TextValues, b \in TextValues, c \in TextValues, q \in TextValues}
  \cup {[FullRecord EXCEPT !.Signatures = g, !.Malware = m] :
       g \in SignaturesValues, m \in {Str("B106-Agent"), Str(""), Null}}
  \cup {Without(FullRecord, "Signatures"), Without(FullRecord, "Malware")}
  \cup {[FullRecord EXCEPT !.HttpMethod = h] : h \in {Null, Str(""), Num(1)}}

\* whether the converter of the dataset raises on record d
ConvertRaisesOn(api, d) ==
  IF api = CTIP_API_INFECTED THEN ConvertInfectedRaises(d)
  ELSE ConvertC2Raises(d)

\* stixData when the converter is called: empty for the first record of the
\* batch, the bundles of the earlier records after that
EarlierStixData(api) ==
  {<<>>,
   <<IF api = CTIP_API_INFECTED THEN ConvertCtipInfectedToStix(FullRecord)
     ELSE ConvertCtipC2ToStix(FullRecord)>>}

\* ProcessCtipData calls the converter of the dataset on one record
MapInit ==
  /\ script = "dcuctipapi2stix"
  /\ saveCtipDataFiles = FALSE
  /\ saveStixDataFiles = FALSE
  /\ startTimestampLocal = "bound"
  /\ pc = "post"
  /\ ds = 1
  /\ returned = <<>>
  /\ offset = CTIP_API_OFFSET_INIT
  /\ totalRowCount = 0
  /\ totalDownloadedDataCount = 0
  /\ ctipDataDownload = <<>>
  /\ gzFileCount = 0
  /\ retryAttempt = 0
  /\ retryDelay = CTIP_API_MAX_RETRY_DELAY_SECONDS
  /\ apiResponse = NoResponse
  /\ nReqOffset = 0
  /\ firstStatus = 0
  /\ all429 = FALSE
  /\ firstTotal = -1
  /\ hdrChanged = FALSE
  /\ nFirstTry = 0
  /\ excSeen = FALSE
  /\ exitPath = "complete"
  /\ written = NoFiles
  /\ interrupts = 0
  /\ mapPc = "labels"
  /\ mapApi \in {CTIP_API_INFECTED, CTIP_API_C2}
  /\ ctipStixData \in EarlierStixData(mapApi)
  /\ objCtipData \in MapInputs
  /\ mapOut = NoLocals

\* a subscript, GetStixTimestamp, .lower() or a string concatenation raises:
\* the exception leaves the converter
MapRaises ==
  /\ mapPc = "labels"
  /\ ConvertRaisesOn(mapApi, objCtipData)
  /\ mapPc' = "raised"
  /\ UNCHANGED <<fetch, mapApi, objCtipData, mapOut>>

\* threatConfidenceInfo and stixCtipTlp
MapLabels ==
  /\ mapPc = "labels"
  /\ ~ConvertRaisesOn(mapApi, objCtipData)
  /\ mapOut' = [mapOut EXCEPT
        !.threatConfidenceInfo =
            IF mapApi = CTIP_API_INFECTED
            THEN GetThreatConfidenceInfoInfected(objCtipData.ThreatConfidence.v)
            ELSE GetThreatConfidenceInfoC2(objCtipData.ThreatConfidence.v),
        !.stixCtipTlp = GetTlpInfo(objCtipData.TLP.v)]
  /\ mapPc' = "traffic"
  /\ UNCHANGED <<fetch, mapApi, objCtipData>>

\* the protocols argument of stix2.NetworkTraffic
MapTraffic ==
  /\ mapPc = "traffic"
  /\ mapOut' = [mapOut EXCEPT
        !.protocols = <<GetHttpProtocol(objCtipData.DestinationPort)>>]
  /\ mapPc' = "location"
  /\ UNCHANGED <<fetch, mapApi, objCtipData>>

\* fLatitude and fLongitude, the arguments of stix2.Location
MapLocation ==
  /\ mapPc = "location"
  /\ mapOut' = [mapOut EXCEPT
        !.loc = IF mapApi = CTIP_API_INFECTED
                THEN [latitude |-> NormalizeCoordinate(objCtipData.SourceIpLatitude),
                      longitude |-> NormalizeCoordinate(objCtipData.SourceIpLongitude)]
                ELSE [latitude |-> NormalizeCoordinate(objCtipData.DestinationIpLatitude),
                      longitude |-> NormalizeCoordinate(objCtipData.DestinationIpLongitude)]]
  /\ mapPc' = "bundle"
  /\ UNCHANGED <<fetch, mapApi, objCtipData>>

\* the notes, the optional file entity and the returned stix2.Bundle
MapBundle ==
  /\ mapPc = "bundle"
  /\ mapOut' = [mapOut EXCEPT
        !.bundle = IF mapApi = CTIP_API_INFECTED
                   THEN ConvertCtipInfectedToStix(objCtipData)
                   ELSE ConvertCtipC2ToStix(objCtipData)]
  /\ mapPc' = "returned"
  /\ UNCHANGED <<fetch, mapApi, objCtipData>>

\* ProcessCtipData appends the returned bundle to stixData
MapAppend ==
  /\ mapPc = "returned"
  /\ ctipStixData' = Append(ctipStixData, mapOut.bundle)
  /\ mapPc' = "appended"
  /\ UNCHANGED <<config, startTimestampLocal, pc, ds, returned, offset,
                 totalRowCount, totalDownloadedDataCount, ctipDataDownload,
                 gzFileCount, iter,
                 seenVars, excSeen, exitPath, written, interrupts, mapApi,
                 objCtipData, mapOut>>

\* MapSkip appending an empty bundle for the record
MapSkip_AppendsEmpty ==
  /\ mapPc = "raised"
  /\ mapPc' = "skipped"
  /\ ctipStixData' = Append(ctipStixData, <<>>)
  /\ UNCHANGED <<config, startTimestampLocal, pc, ds, returned, offset,
                 totalRowCount, totalDownloadedDataCount, ctipDataDownload,
                 gzFileCount, iter, seenVars, excSeen, exitPath, written,
                 interrupts, mapApi, objCtipData, mapOut>>

\* "except Exception" of ProcessCtipData: the record is logged and skipped
MapSkip ==
  /\ mapPc = "raised"
  /\ mapPc' = "skipped"
  /\ UNCHANGED <<fetch, mapApi, objCtipData, mapOut>>

MapNext ==
  \/ MapRaises
  \/ MapLabels
  \/ MapTraffic
  \/ MapLocation
  \/ MapBundle
  \/ MapAppend
  \/ MapSkip

MapSpec == MapInit /\ [][MapNext]_vars

(***************************************************************************)
(* Properties                                                              *)
(***************************************************************************)
\* the while loop of the current fetch has been left
LoopEnded == exitPath # "none"

\* a decoded 200 response is in hand, not yet handled
ChunkInHand ==
  pc = "handle" /\ apiResponse.status = HTTP_OK /\ apiResponse.decodable

\* a zero-record chunk has been received in the current fetch
EmptySeen == exitPath = "zero" \/ (ChunkInHand /\ apiResponse.chunk = <<>>)

\* the record counts of the chunks received so far, summed
ReceivedCount ==
  totalDownloadedDataCount + (IF ChunkInHand THEN Len(apiResponse.chunk) ELSE 0)

\* every 200 response of the current fetch so far advertised one and the same
\* total, no failure has ended the loop, and nothing has been caught or
\* interrupted
CleanRun ==
  /\ ds >= 1
  /\ firstTotal # -1
  /\ ~hdrChanged
  /\ exitPath \in {"none", "complete", "zero"}
  /\ ~excSeen
  /\ interrupts = 0

\* the step sends an HTTP request
RequestStep == nReqOffset' > nReqOffset

\* C1 as stated: after any run of 200 chunks advertising the total T whose
\* record counts sum to at most T (every such run is the beginning of a chunk
\* sequence summing to exactly T), the loop has not ended before the
\* accumulated count equals T.
C1_AsStated ==
  (CleanRun /\ LoopEnded /\ totalDownloadedDataCount <= firstTotal)
     => totalDownloadedDataCount = firstTotal

\* C1: pagination termination, for non-empty chunks. While the server answers
\* with non-empty 200 chunks advertising the total T and their record counts
\* sum to at most T, the loop has ended exactly when the accumulated count
\* equals T; it then ended by completion, and control is past the loop, so no
\* further request is sent.
C1_PaginationTermination ==
  (CleanRun /\ ~EmptySeen /\ ReceivedCount <= firstTotal)
     => /\ LoopEnded <=> totalDownloadedDataCount = firstTotal
        /\ LoopEnded => (exitPath = "complete" /\ pc \notin {"loop", "retry", "handle"})
        /\ offset = CTIP_API_OFFSET_INIT + totalDownloadedDataCount

\* two non-empty chunks summing to the advertised total have been consumed
C1_Witness ==
  /\ CleanRun
  /\ script = "dcuctiptsfapi"
  /\ exitPath = "complete"
  /\ gzFileCount = 2
  /\ totalDownloadedDataCount = firstTotal

\* C2: zero-chunk termination. Handling a decoded 200 chunk with zero records
\* leaves the loop at once, whatever offset and total are, and leaves offset,
\* the running count and the accumulator as they were; after that no request
\* is sent for the dataset.
C2_ZeroChunkTermination ==
  [][ /\ (ChunkInHand /\ apiResponse.chunk = <<>> /\ interrupts' = interrupts)
          => /\ pc' = AfterLoop
             /\ exitPath' = "zero"
             /\ offset' = offset
             /\ totalDownloadedDataCount' = totalDownloadedDataCount
             /\ ctipDataDownload' = ctipDataDownload
      /\ (exitPath = "zero" /\ ds' = ds)
          => /\ ~RequestStep
             /\ pc' \notin {"loop", "retry", "handle"}
             /\ offset' = offset
             /\ ctipDataDownload' = ctipDataDownload ]_vars

\* the loop was left by a zero-record chunk while offset was still within the
\* advertised total, with records already accumulated
C2_Witness ==
  /\ exitPath = "zero"
  /\ offset > CTIP_API_OFFSET_INIT
  /\ offset <= totalRowCount

\* a pass of the sub-loop: it sleeps retryDelay, counts the attempt and
\* repeats the request
RetryPass == pc = "retry" /\ retryAttempt' = retryAttempt + 1

\* C3 as stated: while the requests for an offset are answered by 429
\* responses only (nothing raised), the delay slept before the 1st, 2nd and
\* 3rd retry is 10s, 30s and 90s.
C3_AsStated ==
  [][ (RetryPass /\ all429 /\ interrupts' = interrupts)
         => retryDelay = CASE retryAttempt' = 1 -> 10
                           [] retryAttempt' = 2 -> 30
                           [] OTHER -> 90 ]_vars

\* the handling of a decoded 200 chunk, as the code does it for a first-try
\* response
HandledAsFirstTry ==
  LET n == Len(apiResponse.chunk)
      exit == IF n = 0 THEN "zero"
              ELSE IF offset + n > apiResponse.total THEN "complete"
              ELSE "continue"
  IN  /\ offset' = offset + n
      /\ totalDownloadedDataCount' = totalDownloadedDataCount + n
      /\ totalRowCount' = apiResponse.total
      /\ script # "dcuctiptsfapi" => ctipDataDownload' = ctipDataDownload \o apiResponse.chunk
      /\ pc' = IF exit = "continue" THEN "loop" ELSE AfterLoop
      /\ exitPath' = IF exit = "continue" THEN exitPath ELSE exit

\* C4: bounded retry. The sub-loop runs only after a first response of 429;
\* it sends at most 3 further requests for the offset, so at most 4 requests
\* per offset; it is left at the first retry answered 200; and that 200 is
\* handled exactly as a first-try 200 is.
C4_BoundedRetry ==
  /\ [](/\ (pc = "retry" \/ retryAttempt > 0) => firstStatus = HTTP_TOO_MANY_REQUESTS
        /\ pc = "retry" => apiResponse.status # HTTP_OK
        /\ retryAttempt <= CTIP_API_MAX_RETRIES
        /\ nReqOffset <= 1 + retryAttempt
        /\ nReqOffset <= 1 + CTIP_API_MAX_RETRIES)
  /\ [][ (ChunkInHand /\ interrupts' = interrupts /\ exitPath' # "exception")
            => HandledAsFirstTry ]_vars

\* a 200 answer to the second retry is in hand, the sub-loop left, a third
\* retry not made
C4_Witness ==
  /\ ChunkInHand
  /\ retryAttempt = 2
  /\ nReqOffset = 3
  /\ Len(apiResponse.chunk) > 0

\* C5 as stated: once a response with a status other than 200 and 429 has
\* been received for a dataset, no further request is sent for that dataset.
C5_AsStated ==
  [][ (/\ \/ apiResponse.status \in {HTTP_BAD_REQUEST, HTTP_FORBIDDEN, HTTP_SERVER_ERROR}
          \/ exitPath = "error"
       /\ ds' = ds)
         => ~RequestStep ]_vars

\* the bundles of the convertible records among ctipData, in input order
BundlesOf(api, ctipData) ==
  LET convertible == SelectSeq(ctipData, LAMBDA id : ~ConvertRaises(api, id))
  IN  [i \in 1..Len(convertible) |-> StixBundle(api, convertible[i])]

\* C6 as stated: on every path into the return of the fetch function the
\* returned value reflects everything gathered: all records accumulated
\* (dcuctipapi), their bundles (dcuctipapi2stix), the count of all records
\* downloaded (dcuctiptsfapi). Stated for the paths the claim lists, so for
\* runs without a KeyboardInterrupt.
C6_AsStated ==
  (pc = "finally" /\ interrupts = 0) =>
    CASE script = "dcuctipapi" ->
           ReturnValue = ctipDataDownload /\ Len(ReturnValue) = totalDownloadedDataCount
      [] script = "dcuctipapi2stix" ->
           ReturnValue = BundlesOf(ctipApi, ctipDataDownload)
      [] script = "dcuctiptsfapi" ->
           ReturnValue = totalDownloadedDataCount

\* C7: offset invariant. At the top of every loop iteration offset is 1 plus
\* the running downloaded count, and offset changes only when the fetch
\* function initialises it to 1 or when a decoded 200 chunk is handled, and
\* then by the number of records decoded (in dcuctiptsfapi too, whatever row
\* count is read back from the saved file).
C7_OffsetInvariant ==
  /\ [](pc = "loop" => offset = CTIP_API_OFFSET_INIT + totalDownloadedDataCount)
  /\ [][ offset' # offset
           => \/ (pc = "main" /\ pc' = "loop" /\ offset' = CTIP_API_OFFSET_INIT)
              \/ (ChunkInHand /\ offset' = offset + Len(apiResponse.chunk)) ]_vars

\* dcuctiptsfapi with saving on is back at the top of the loop after a chunk
C7_Witness ==
  /\ script = "dcuctiptsfapi"
  /\ saveCtipDataFiles
  /\ pc = "loop"
  /\ gzFileCount > 0
  /\ offset > CTIP_API_OFFSET_INIT

\* the number of objects of a complete bundle of the record
BundleSize(api, id) ==
  IF api = CTIP_API_INFECTED THEN 13
  ELSE IF FileEntityRaises(Record(id)) THEN 11 ELSE 12

\* C8: per-record error isolation. Once ProcessCtipData of dcuctipapi2stix has
\* run, the bundle list holds, in input order, exactly one complete bundle
\* for each record whose conversion does not raise and nothing for a record
\* whose conversion raises.
C8_ErrorIsolation ==
  (script = "dcuctipapi2stix" /\ written.process = 1)
     => LET convertible == SelectSeq(ctipDataDownload,
                                     LAMBDA id : ~ConvertRaises(ctipApi, id))
        IN  /\ Len(ctipStixData) = Len(convertible)
            /\ \A i \in 1..Len(ctipStixData) :
                  /\ ctipStixData[i].src = convertible[i]
                  /\ ctipStixData[i] = StixBundle(ctipApi, convertible[i])
                  /\ Len(ctipStixData[i].objects) = BundleSize(ctipApi, convertible[i])

\* three records were processed; the second lacks a required field and the
\* first and third produced the two bundles
C8_Witness ==
  /\ script = "dcuctipapi2stix"
  /\ written.process = 1
  /\ Len(ctipDataDownload) = 3
  /\ ConvertRaises(ctipApi, ctipDataDownload[2])
  /\ Len(ctipStixData) = 2

\* C9: a failed dataset does not stop the run. In dcuctipapi and
\* dcuctipapi2stix, unless a KeyboardInterrupt is delivered, a run ends only
\* after both fetches have returned; every exception raised in the fetch
\* function leads to its return; the Infected fetch, however its loop ended,
\* returns to main, and main's next step is the call of the C2 fetch.
C9_FailedDatasetContinues ==
  /\ [](script # "dcuctiptsfapi" =>
          /\ pc = "exited" => interrupts > 0
          /\ pc = "done" => (ds = 2 /\ Len(returned) = 2))
  /\ [][ script # "dcuctiptsfapi" =>
          /\ ((excSeen' /\ ~excSeen) \/ (exitPath' = "exception" /\ exitPath = "none"))
                => pc' = "finally"
          /\ (ds = 1 /\ pc = "finally" /\ interrupts' = interrupts)
                => (pc' = "main" /\ Len(returned') = 1)
          /\ (ds = 1 /\ pc = "main" /\ interrupts' = interrupts)
                => (pc' = "loop" /\ ds' = 2) ]_vars

\* the Infected fetch was ended by an exception and has returned to main
C9_Witness ==
  /\ script # "dcuctiptsfapi"
  /\ ds = 1
  /\ pc = "main"
  /\ Len(returned) = 1
  /\ exitPath = "exception"
  /\ interrupts = 0

\* C10 as stated: once a KeyboardInterrupt has been delivered, no further HTTP
\* request is sent, no further dataset is started, and the fetch function
\* does not return to main as if nothing had happened: the run ends through
\* the early-exit path of main.
C10_AsStated ==
  [][ interrupts > 0
        => /\ ~RequestStep
           /\ ds' = ds
           /\ pc' \notin {"main", "done"} ]_vars

\* the converter has computed threatConfidenceInfo and stixCtipTlp
LabelsDone == mapPc \in {"traffic", "location", "bundle", "returned", "appended"}

\* the converter has returned its bundle
BundleDone == mapPc \in {"returned", "appended"}

\* the confidence tier a ThreatConfidence string denotes, whatever its case
ConfidenceTier(v) ==
  CASE v \in {"High", "HIGH", "hIgH", "high"} -> "high"
    [] v \in {"Medium", "MEDIUM", "medium"} -> "medium"
    [] v \in {"Low", "LOW", "low"} -> "low"
    [] OTHER -> "none"

\* C11 (confidence mapping, P5): for every ThreatConfidence string of a
\* record, whatever its case, both converters compute the score 85 for high,
\* 50 for medium, 25 for low and 0 for anything else; the Infected category is
\* compromised / malicious-activity / anomalous-activity for high / medium /
\* low and anomalous-activity otherwise; the C2 category is
\* command-and-control for a recognized tier and anomalous-activity
\* otherwise; the primary object of the returned bundle carries both.
C11_ConfidenceMapping ==
  LabelsDone =>
    LET tier == ConfidenceTier(objCtipData.ThreatConfidence.v)
        info == mapOut.threatConfidenceInfo
    IN  /\ info[1] = (CASE tier = "high" -> 85
                        [] tier = "medium" -> 50
                        [] tier = "low" -> 25
                        [] OTHER -> 0)
        /\ mapApi = CTIP_API_INFECTED =>
             info[2] = (CASE tier = "high" -> "compromised"
                          [] tier = "medium" -> "malicious-activity"
                          [] OTHER -> "anomalous-activity")
        /\ mapApi = CTIP_API_C2 =>
             info[2] = (IF tier = "none" THEN "anomalous-activity"
                        ELSE "command-and-control")
        /\ BundleDone =>
             /\ mapOut.bundle[1].confidence = info[1]
             /\ mapOut.bundle[1].category = info[2]

\* a C2 record labelled "hIgH" has been converted
C11_Witness ==
  /\ mapPc = "appended"
  /\ mapApi = CTIP_API_C2
  /\ objCtipData.ThreatConfidence = Str("hIgH")
  /\ mapOut.bundle[1].confidence = 85
  /\ mapOut.bundle[1].category = "command-and-control"

\* the converter has computed the protocols of the network-traffic object
TrafficDone == mapPc \in {"location", "bundle", "returned", "appended"}

\* the decoded JSON value x is the number n
IsNumber(x, n) ==
  \/ x.t = "int" /\ x.v = n
  \/ x.t = "float" /\ x.v = ToString(n) \o ".0"

\* C12 (protocol derivation, P7): GetHttpProtocol gives "http" exactly when
\* the destination port is 80, "https" exactly when it is 443, and "unknown"
\* for null, zero and every other value; it never raises: the statement that
\* calls it always completes, and the network-traffic object of the bundle
\* carries the one protocol it returned.
C12_ProtocolDerivation ==
  /\ [](TrafficDone =>
          LET port == objCtipData.DestinationPort
              protocol == mapOut.protocols[1]
          IN  /\ Len(mapOut.protocols) = 1
              /\ protocol \in {"http", "https", "unknown"}
              /\ protocol = "http" <=> IsNumber(port, 80)
              /\ protocol = "https" <=> IsNumber(port, 443)
              /\ (port = Null \/ IsNumber(port, 0)) => protocol = "unknown"
              /\ BundleDone =>
                   \E i \in 1..Len(mapOut.bundle) :
                      /\ mapOut.bundle[i].type = "network-traffic"
                      /\ mapOut.bundle[i].protocols = <<protocol>>)
  /\ [][mapPc = "traffic" => mapPc' = "location"]_vars

\* a record with destination port 443 has been converted
C12_Witness ==
  /\ mapPc = "appended"
  /\ objCtipData.DestinationPort = Num(443)
  /\ mapOut.protocols = <<"https">>

\* the converter has computed fLatitude and fLongitude
LocationDone == mapPc \in {"bundle", "returned", "appended"}

\* the decoded JSON value x is a number equal to zero: 0.0, 0 or -0.0
IsZero(x) == x \in {Flt("0.0"), Num(0), Flt("-0.0")}

\* the latitude and longitude fields the converter of the dataset reads
LatitudeOf(api, d) ==
  IF api = CTIP_API_INFECTED THEN d.SourceIpLatitude ELSE d.DestinationIpLatitude
LongitudeOf(api, d) ==
  IF api = CTIP_API_INFECTED THEN d.SourceIpLongitude ELSE d.DestinationIpLongitude

\* C13 as stated (coordinate normalization, P6): for both dataset kinds the
\* latitude handed to the location is 0.0001 when the record's latitude is
\* zero in any encoding (0.0, 0, -0.0) and the record's latitude otherwise,
\* and likewise, independently, the longitude.
C13_AsStated ==
  LocationDone =>
    LET lat == LatitudeOf(mapApi, objCtipData)
        lon == LongitudeOf(mapApi, objCtipData)
    IN  /\ mapOut.loc.latitude = (IF IsZero(lat) THEN Flt("0.0001") ELSE lat)
        /\ mapOut.loc.longitude = (IF IsZero(lon) THEN Flt("0.0001") ELSE lon)

\* the sharing level a TLP string denotes, whatever its case; red when it
\* denotes none of the three
TlpLevel(v) ==
  CASE v \in {"Amber", "AMBER", "aMbEr", "amber"} -> "amber"
    [] v \in {"Green", "GREEN", "green"} -> "green"
    [] OTHER -> "red"

\* C14 (sharing-level mapping): GetTlpInfo maps the record's TLP string,
\* whatever its case, to ("TLP: Red", red marking) for red, ("TLP: Amber",
\* amber marking) for amber, ("TLP: Green", green marking) for green and to
\* the red pair for every other string; label and marking always denote the
\* same level, and the primary object of the returned bundle carries both.
C14_TlpMapping ==
  LabelsDone =>
    LET level == TlpLevel(objCtipData.TLP.v)
        tlp == mapOut.stixCtipTlp
    IN  /\ tlp = (CASE level = "red" -> <<"TLP: Red", "TLP_RED">>
                    [] level = "amber" -> <<"TLP: Amber", "TLP_AMBER">>
                    [] level = "green" -> <<"TLP: Green", "TLP_GREEN">>)
        /\ tlp \in {<<"TLP: Red", "TLP_RED">>, <<"TLP: Amber", "TLP_AMBER">>,
                    <<"TLP: Green", "TLP_GREEN">>}
        /\ BundleDone =>
             /\ mapOut.bundle[1].tlp = tlp[1]
             /\ mapOut.bundle[1].marking = tlp[2]

\* a record labelled TLP "White" has been converted, with the red pair
C14_Witness ==
  /\ mapPc = "appended"
  /\ objCtipData.TLP = Str("White")
  /\ mapOut.bundle[1].tlp = "TLP: Red"
  /\ mapOut.bundle[1].marking = "TLP_RED"

\* the custom fields of a record
CustomFields ==
  {"CustomField1", "CustomField2", "CustomField3", "CustomField4", "CustomField5"}

\* the positions of the notes of bundle b made for field f
NotesFor(b, f) == {i \in 1..Len(b) : b[i].type = "note" /\ b[i].field = f}

\* the positions of all notes of bundle b
Notes(b) == {i \in 1..Len(b) : b[i].type = "note"}

\* the primary subject entity of the bundles of a dataset
PrimarySubject(api) ==
  IF api = CTIP_API_INFECTED THEN "indicator" ELSE "infrastructure"

\* every note of bundle b references the primary subject and the
\* network-traffic entity of b
NotesReference(api, b) ==
  /\ b[1].type = PrimarySubject(api)
  /\ \E i \in 1..Len(b) : b[i].type = "network-traffic"
  /\ \A i \in Notes(b) : b[i].object_refs = <<PrimarySubject(api), "network-traffic">>

\* C15 as stated: the bundle of a record has one note for each non-empty
\* custom field and none for an empty or null one, plus one Payload note for
\* an Infected record only; every note references the primary subject and the
\* network-traffic entity.
C15_AsStated ==
  BundleDone =>
    /\ \A f \in CustomFields :
          Cardinality(NotesFor(mapOut.bundle, f))
            = (IF Truthy(objCtipData[f]) THEN 1 ELSE 0)
    /\ Cardinality(NotesFor(mapOut.bundle, "Payload"))
            = (IF mapApi = CTIP_API_INFECTED THEN 1 ELSE 0)
    /\ NotesReference(mapApi, mapOut.bundle)

\* C15 (annotations): the bundle of a record has exactly one note for each of
\* CustomField1..CustomField5, empty or not: its content is the field's value
\* when that is non-empty and the empty string when it is empty or null;
\* the bundle of an Infected record has one more note, for Payload, with the
\* same rule, and the bundle of a C2 record has none for Payload; every note
\* references the primary subject and the network-traffic entity.
C15_Annotations ==
  BundleDone =>
    /\ \A f \in CustomFields \cup
                (IF mapApi = CTIP_API_INFECTED THEN {"Payload"} ELSE {}) :
          /\ Cardinality(NotesFor(mapOut.bundle, f)) = 1
          /\ \A i \in NotesFor(mapOut.bundle, f) :
                mapOut.bundle[i].content
                  = (IF objCtipData[f] \in {Null, Str("")} THEN Str("")
                     ELSE objCtipData[f])
    /\ mapApi = CTIP_API_C2 => NotesFor(mapOut.bundle, "Payload") = {}
    /\ Cardinality(Notes(mapOut.bundle))
          = (IF mapApi = CTIP_API_INFECTED THEN 6 ELSE 5)
    /\ NotesReference(mapApi, mapOut.bundle)

\* a C2 record with a null CustomField1 and an empty CustomField2 has been
\* converted, with an empty note for each
C15_Witness ==
  /\ mapPc = "appended"
  /\ mapApi = CTIP_API_C2
  /\ objCtipData.CustomField1 = Null
  /\ objCtipData.CustomField2 = Str("")
  /\ objCtipData.CustomField5 = Str("x")
  /\ \A f \in {"CustomField1", "CustomField2"} :
        \E i \in NotesFor(mapOut.bundle, f) : mapOut.bundle[i].content = Str("")

\* record d carries a well-formed SHA-256 in Signatures.Sha256
HasSha256(d) ==
  /\ "Signatures" \in DOMAIN d
  /\ d.Signatures.t = "obj"
  /\ "Sha256" \in DOMAIN d.Signatures.v
  /\ IsStr(d.Signatures.v.Sha256)
  /\ d.Signatures.v.Sha256.v \in ValidSha256

\* the positions of the file entities of bundle b
Files(b) == {i \in 1..Len(b) : b[i].type = "file"}

\* the types of the entities of bundle b other than file entities, in order
RECURSIVE OtherTypes(_)
OtherTypes(b) ==
  IF b = <<>> THEN <<>>
  ELSE (IF Head(b).type = "file" THEN <<>> ELSE <<Head(b).type>>)
       \o OtherTypes(Tail(b))

\* C16 as stated (optional file entity): the bundle of a C2 record contains a
\* file entity exactly when the record carries a well-formed SHA-256 in
\* Signatures.Sha256, and with or without it the bundle holds all the other
\* entities; the bundle of an Infected record never contains a file entity.
C16_AsStated ==
  BundleDone =>
    /\ mapApi = CTIP_API_C2 =>
         /\ Files(mapOut.bundle) # {} <=> HasSha256(objCtipData)
         /\ OtherTypes(mapOut.bundle)
              = <<"infrastructure", "malware", "network-traffic", "ipv4-addr",
                  "autonomous-system", "location", "note", "note", "note",
                  "note", "note">>
    /\ mapApi = CTIP_API_INFECTED => Files(mapOut.bundle) = {}

\* the retry sub-loop has used all its attempts and the response left in hand
\* is not a 200
RetriesExhausted ==
  retryAttempt = CTIP_API_MAX_RETRIES /\ apiResponse.status # HTTP_OK

\* C17 (retry exhaustion is not escalated): when the retry sub-loop has used
\* all 3 attempts without a 200 response, the response in hand is handled by
\* the ordinary status handling: no exception is raised, no record is added
\* and no local of the fetch changes, the body is saved as an error response,
\* the loop is left and no further request is sent; the function then returns
\* what was accumulated before (the records, their bundles, or the count).
C17_RetryExhaustion ==
  /\ [][ (pc = "handle" /\ RetriesExhausted /\ interrupts' = interrupts)
           => /\ pc' = AfterLoop
              /\ exitPath' = "error"
              /\ excSeen' = excSeen
              /\ UNCHANGED locals
              /\ written'.error = written.error + 1 ]_vars
  /\ [][ (RetriesExhausted /\ pc \in {"post", "finally"}) => ~RequestStep ]_vars
  /\ [](pc \in {"post", "finally"} /\ RetriesExhausted
          => exitPath = "error" /\ written.error = 1)
  /\ [](pc = "finally" /\ RetriesExhausted
          => CASE script = "dcuctipapi" ->
                    ReturnValue = ctipDataDownload
                    /\ Len(ReturnValue) = totalDownloadedDataCount
               [] script = "dcuctipapi2stix" ->
                    ReturnValue = BundlesOf(ctipApi, ctipDataDownload)
               [] script = "dcuctiptsfapi" ->
                    ReturnValue = totalDownloadedDataCount)

\* after a chunk was downloaded, an offset was answered 429 four times; the
\* fetch is about to return the records accumulated before
C17_Witness ==
  /\ pc = "finally"
  /\ RetriesExhausted
  /\ apiResponse.status = HTTP_TOO_MANY_REQUESTS
  /\ all429
  /\ totalDownloadedDataCount > 0
  /\ exitPath = "error"
  /\ written.error = 1
  /\ ~excSeen
  /\ interrupts = 0

\* the step handles the decoded 200 response in hand
HandlesChunk == ChunkInHand /\ interrupts' = interrupts

C19_SequentialFetching ==
  /\ [](ds = 2 => Len(returned) >= 1)
  /\ []((ds = 1 /\ pc \in {"loop", "retry", "handle", "post", "finally"})
          => Len(returned) = 0)
  /\ [][ ds' = ds => offset' >= offset ]_vars
  /\ [][ offset' > offset
           => /\ HandlesChunk
              /\ apiResponse.chunk # <<>>
              /\ offset' = offset + Len(apiResponse.chunk) ]_vars
  /\ [][ (RequestStep \/ pc = "retry") => offset' = offset ]_vars

\* in the fetch of the second dataset, after a first chunk, the request for
\* the next offset was answered 429 and has been repeated
C19_Witness ==
  /\ ds = 2
  /\ Len(returned) = 1
  /\ pc = "retry"
  /\ offset > CTIP_API_OFFSET_INIT
  /\ retryAttempt >= 1
  /\ nReqOffset >= 2

\* every record downloaded in the current fetch is one its converter accepts
AllWellFormed ==
  \A i \in 1..Len(ctipDataDownload) : ~ConvertRaises(ctipApi, ctipDataDownload[i])

\* the while loop was left by completion: the offset passed the total, or a
\* zero-record chunk came
EndedByCompletion == exitPath \in {"complete", "zero"}

\* C20 (fetch-then-map count): in dcuctipapi2stix, when the fetch loop of a
\* dataset ends by completion and every downloaded record is well-formed, the
\* number of bundles CtipApi returns equals the number of records downloaded,
\* and main receives that number; in particular, when the first response is a
\* 200 that advertises total-row-count n and carries n records (n >= 1), the
\* offset becomes n + 1 and the loop ends with that one request, no other
\* request being sent for the dataset.
C20_FetchThenMapCount ==
  /\ []((script = "dcuctipapi2stix" /\ pc = "finally" /\ EndedByCompletion
           /\ AllWellFormed /\ interrupts = 0)
          => /\ Len(ReturnValue) = totalDownloadedDataCount
             /\ Len(ReturnValue) = Len(ctipDataDownload))
  /\ [][ (script = "dcuctipapi2stix" /\ pc = "finally" /\ pc' = "main"
            /\ EndedByCompletion /\ AllWellFormed /\ interrupts = 0)
           => returned'[Len(returned')] = totalDownloadedDataCount ]_vars
  /\ [][ (script = "dcuctipapi2stix" /\ HandlesChunk
            /\ offset = CTIP_API_OFFSET_INIT /\ nReqOffset = 1
            /\ apiResponse.chunk # <<>>
            /\ apiResponse.total = Len(apiResponse.chunk))
           => /\ offset' = apiResponse.total + 1
              /\ totalDownloadedDataCount' = apiResponse.total
              /\ exitPath' = "complete"
              /\ pc' = "post" ]_vars
  /\ [][ (LoopEnded /\ ds' = ds) => ~RequestStep ]_vars

\* the total-row-count is MaxTotal and as many well-formed records were
\* downloaded: the offset is one more, and as many bundles are about to be
\* returned
C20_Witness ==
  /\ script = "dcuctipapi2stix"
  /\ pc = "finally"
  /\ exitPath = "complete"
  /\ totalRowCount = MaxTotal
  /\ totalDownloadedDataCount = MaxTotal
  /\ offset = MaxTotal + 1
  /\ AllWellFormed
  /\ Len(ctipStixData) = MaxTotal
  /\ interrupts = 0

\* C21 as stated (summary always runs): once an exception raised inside
\* main's guarded block has been caught by "except Exception", the steps of
\* main's finally block run to their end without raising.
C21_AsStated ==
  [][ pc = "caught" => pc' = "done" ]_vars

\* C22 (write-once outputs): within one dataset fetch the combined data file,
\* the combined STIX file and the error-response file are each written at
\* most once (the names carry the dataset, so the two fetches of a run write
\* different files); a chunk file of dcuctiptsfapi is named by the counter
\* gzFileCount, which only ever grows by one, right before the file is
\* written, so no chunk file name is used twice; the other scripts write no
\* chunk file, and dcuctiptsfapi writes no combined file.
C22_WriteOnce ==
  /\ [](/\ written.data <= 1
        /\ written.stix <= 1
        /\ written.error <= 1
        /\ script # "dcuctiptsfapi" => gzFileCount = 0
        /\ script = "dcuctiptsfapi" => (written.data = 0 /\ written.stix = 0)
        /\ script # "dcuctipapi2stix" => written.stix = 0)
  /\ [][ gzFileCount' # gzFileCount
           => \/ gzFileCount' = gzFileCount + 1
              \/ (pc = "main" /\ gzFileCount' = 0) ]_vars
  /\ [][ (ds' = ds)
           => /\ written'.data >= written.data
              /\ written'.stix >= written.stix
              /\ written'.error >= written.error ]_vars

\* the C2 fetch of dcuctipapi2stix has written its data file and its STIX
\* file, once each
C22_Witness ==
  /\ script = "dcuctipapi2stix"
  /\ ds = 2
  /\ pc = "finally"
  /\ written.data = 1
  /\ written.stix = 1
  /\ totalDownloadedDataCount = MaxTotal

\* max(1, T) for the total T advertised by the 200 responses of the fetch so
\* far (-1 while there has been none)
RequestBound == IF firstTotal > 1 THEN firstTotal ELSE 1

LeftByBreak == exitPath \in {"complete", "zero", "error"}

\* the fetch function of dcuctipapi or dcuctipapi2stix is about to return,
\* no KeyboardInterrupt having been delivered
AboutToReturn ==
  script # "dcuctiptsfapi" /\ pc = "finally" /\ interrupts = 0

\* C24 as stated: when the fetch function of dcuctipapi or dcuctipapi2stix
\* returns, ProcessCtipData has run exactly if the loop was left by a break
\* with at least one record accumulated, and SaveCtipDataToFile has run
\* exactly if, in addition, the save flag is set.
C24_AsStated ==
  AboutToReturn
    => /\ written.process = 1 <=> (LeftByBreak /\ totalDownloadedDataCount > 0)
       /\ written.data = 1 <=> (/\ LeftByBreak
                                /\ Len(ctipDataDownload) > 0
                                /\ saveCtipDataFiles)

\* C24 (post-loop steps depend on the exit path): when the fetch function of
\* dcuctipapi or dcuctipapi2stix returns, ProcessCtipData has run exactly if
\* the loop was left by a break with at least one record accumulated;
\* SaveCtipDataToFile has run exactly if, in addition, the save flag is set
\* and ProcessCtipData did not raise; after a loop left by a caught exception
\* neither has run, and dcuctipapi2stix returns the empty bundle list.
C24_PostLoopSteps ==
  AboutToReturn
    => /\ written.process = 1 <=> (LeftByBreak /\ totalDownloadedDataCount > 0)
       /\ written.data = 1 <=> (/\ LeftByBreak
                                /\ Len(ctipDataDownload) > 0
                                /\ saveCtipDataFiles
                                /\ ~(/\ script = "dcuctipapi"
                                     /\ ApiProcessRaises(ctipApi, ctipDataDownload)))
       /\ written.process <= 1
       /\ written.data <= 1
       /\ exitPath = "exception"
            => /\ written.process = 0
               /\ written.data = 0
               /\ written.stix = 0
               /\ script = "dcuctipapi2stix" => ReturnValue = <<>>

\* dcuctipapi2stix with both save flags set: a record was accumulated, the
\* request for the next chunk raised, and the function is about to return no
\* bundle, having written neither file
C24_Witness ==
  /\ AboutToReturn
  /\ script = "dcuctipapi2stix"
  /\ saveCtipDataFiles
  /\ saveStixDataFiles
  /\ exitPath = "exception"
  /\ Len(ctipDataDownload) > 0
  /\ ctipStixData = <<>>
  /\ written = NoFiles

\* C25 (exceptions inside the retry sub-loop): setting KeyboardInterrupts
\* aside, retryDelay changes only in a pass of the sub-loop whose request
\* raised: that pass is counted as an attempt and as a request, leaves
\* apiResponse, the exit path and the caught-exception flag as they were,
\* stays in the fetch loop, and multiplies the delay by 3. A pass that brings
\* a response leaves the delay as it was, so while every request of the
\* iteration was answered by a 429 the delay is still the initial 10 seconds.
C25_SubLoopExceptions ==
  /\ []((all429 /\ pc \in {"retry", "handle"})
           => retryDelay = CTIP_API_MAX_RETRY_DELAY_SECONDS)
  /\ [][ /\ (pc = "retry" /\ interrupts' = interrupts)
            => /\ retryAttempt' = retryAttempt + 1
               /\ nReqOffset' = nReqOffset + 1
               /\ pc' = IF retryAttempt' < CTIP_API_MAX_RETRIES
                           /\ apiResponse'.status # HTTP_OK
                        THEN "retry" ELSE "handle"
               /\ UNCHANGED <<locals, exitPath, excSeen, written>>
               /\ apiResponse' # apiResponse => retryDelay' = retryDelay
               /\ retryDelay' # retryDelay
                    => /\ retryDelay' = CTIP_API_RETRY_DELAY_MULTIPLIER * retryDelay
                       /\ apiResponse' = apiResponse
         /\ (retryDelay' # retryDelay /\ interrupts' = interrupts)
            => \/ pc = "retry"
               \/ retryDelay' = CTIP_API_MAX_RETRY_DELAY_SECONDS ]_vars

\* two retry requests have raised: the third retry will sleep 90 seconds,
\* with the 429 of the first-try request still the current response
C25_Witness ==
  /\ pc = "retry"
  /\ interrupts = 0
  /\ retryAttempt = 2
  /\ nReqOffset = 3
  /\ retryDelay = 90
  /\ apiResponse.status = HTTP_TOO_MANY_REQUESTS

\* offset, the total-row-count, the running count and the accumulated list
FetchProgress ==
  <<offset, totalRowCount, totalDownloadedDataCount, ctipDataDownload>>

\* C26 (non-200 responses change no fetch state): receiving a response, at
\* the top of the loop or in the retry sub-loop, changes none of offset,
\* totalRowCount, the running count and the accumulated list; neither does
\* the handling of a response whose status is not 200. Within a fetch, offset,
\* the running count and the accumulated list change only in the handling of
\* a decoded 200 response with at least one record, and totalRowCount only in
\* the handling of a decoded 200 response.
C26_Non200Frame ==
  [][ /\ pc \in {"loop", "retry"} => UNCHANGED FetchProgress
      /\ (pc = "handle" /\ apiResponse.status # HTTP_OK)
           => UNCHANGED FetchProgress
      /\ (/\ ds' = ds
          /\ \/ offset' # offset
             \/ totalDownloadedDataCount' # totalDownloadedDataCount
             \/ ctipDataDownload' # ctipDataDownload)
           => (ChunkInHand /\ Len(apiResponse.chunk) > 0)
      /\ (ds' = ds /\ totalRowCount' # totalRowCount) => ChunkInHand ]_vars

\* after one record of an advertised two was accumulated, the next request
\* was answered by 429 four times and the loop left on that status, with
\* offset, total and count as the 200 response had left them
C26_Witness ==
  /\ exitPath = "error"
  /\ apiResponse.status = HTTP_TOO_MANY_REQUESTS
  /\ retryAttempt = CTIP_API_MAX_RETRIES
  /\ offset = 2
  /\ totalRowCount = 2
  /\ totalDownloadedDataCount = 1
  /\ written.error = 1

\* the request being prepared, retried or handled is not the first of the
\* dataset
LaterRequest ==
  \/ pc = "loop" /\ nFirstTry >= 1
  \/ pc \in {"retry", "handle"} /\ nFirstTry >= 2

\* C27 (requests stay within the advertised total): every request of a
\* dataset after the first is sent with an offset greater than 1 and not
\* exceeding totalRowCount, the x-total-row-count of the most recent 200
\* response, and the accumulated count at that moment is offset - 1, below
\* that total. A non-empty chunk is added whole, never trimmed, so the count
\* can pass the total only by the chunk that answers the request, and then
\* by at most the size of that chunk minus 1; a count that passes the total
\* the answer itself advertises ends the loop, so the chunk is the last.
C27_WithinTotal ==
  /\ [](LaterRequest
          => /\ offset > CTIP_API_OFFSET_INIT
             /\ offset <= totalRowCount
             /\ totalDownloadedDataCount = offset - 1)
  /\ [][ (HandlesChunk /\ Len(apiResponse.chunk) > 0)
           => LET size == Len(apiResponse.chunk)
              IN  /\ totalDownloadedDataCount' = totalDownloadedDataCount + size
                  /\ script # "dcuctiptsfapi"
                       => ctipDataDownload' = ctipDataDownload \o apiResponse.chunk
                  /\ nFirstTry >= 2
                       => totalDownloadedDataCount' <= totalRowCount + size - 1
                  /\ (/\ apiResponse.total >= 1
                      /\ nFirstTry = 1 \/ apiResponse.total = totalRowCount)
                       => totalDownloadedDataCount' <= totalRowCount' + size - 1
                  /\ totalDownloadedDataCount' > totalRowCount'
                       => pc' \notin {"loop", "retry", "handle"} ]_vars

\* the second request was sent with offset 2 under an advertised total of 2
\* and answered by a chunk of 2 records: 3 records are accumulated, one more
\* than the total
C27_Witness ==
  /\ script # "dcuctiptsfapi"
  /\ exitPath = "complete"
  /\ nFirstTry = 2
  /\ ~hdrChanged
  /\ totalRowCount = 2
  /\ totalDownloadedDataCount = 3
  /\ Len(ctipDataDownload) = 3

\* the record's ThreatConfidence or TLP field is present and null
NullLabel ==
  /\ {"ThreatConfidence", "TLP"} \subseteq DOMAIN objCtipData
  /\ objCtipData.ThreatConfidence = Null \/ objCtipData.TLP = Null

\* C28 (null labels skip the record): the conversion of a record whose
\* ThreatConfidence or TLP is null raises before either label is computed,
\* ProcessCtipData skips the record, and neither step changes the bundles of
\* the earlier records or adds one; a converter that got past the label
\* lookups was given strings for both fields, so the default score 0 is
\* computed for unrecognized strings only.
C28_NullLabels ==
  /\ [](/\ NullLabel => (mapPc \in {"labels", "raised", "skipped"}
                           /\ mapOut = NoLocals)
        /\ LabelsDone => (/\ IsStr(objCtipData.ThreatConfidence)
                          /\ IsStr(objCtipData.TLP)
                          /\ mapOut.threatConfidenceInfo[1] = 0
                               => ConfidenceTier(objCtipData.ThreatConfidence.v) = "none"))
  /\ [][ /\ NullLabel => (/\ ctipStixData' = ctipStixData
                          /\ mapPc' \in {"raised", "skipped"})
         /\ mapPc \in {"labels", "raised"} => ctipStixData' = ctipStixData ]_vars

\* a record with the ThreatConfidence "High" and a null TLP, second of its
\* batch, was skipped: stixData still holds the bundle of the first record
C28_Witness ==
  /\ mapPc = "skipped"
  /\ objCtipData.TLP = Null
  /\ objCtipData.ThreatConfidence = Str("High")
  /\ Len(ctipStixData) = 1
  /\ Len(ctipStixData[1]) > 0

\* the entity types of the returned bundle, in order
BundleTypes == [i \in 1..Len(mapOut.bundle) |-> mapOut.bundle[i].type]

\* the six notes of an Infected bundle, the five of a C2 bundle
SixNotes == <<"note", "note", "note", "note", "note", "note">>
FiveNotes == <<"note", "note", "note", "note", "note">>

\* C29 (fixed bundle shape): whatever optional fields of the record are null
\* or empty, a bundle returned by ConvertCtipInfectedToStix holds 13
\* entities: indicator, malware, network-traffic, two addresses,
\* autonomous-system, location and six notes; a bundle returned by
\* ConvertCtipC2ToStix holds infrastructure, malware, network-traffic, one
\* address, autonomous-system, location, the file entity when it was built,
\* and five notes: 12 entities with the file entity and 11 without.
C29_BundleShape ==
  BundleDone =>
    /\ mapApi = CTIP_API_INFECTED
         => /\ Len(mapOut.bundle) = 13
            /\ BundleTypes = <<"indicator", "malware", "network-traffic",
                               "ipv4-addr", "ipv4-addr", "autonomous-system",
                               "location">> \o SixNotes
    /\ (mapApi = CTIP_API_C2 /\ ~FileEntityRaises(objCtipData))
         => /\ Len(mapOut.bundle) = 12
            /\ BundleTypes = <<"infrastructure", "malware", "network-traffic",
                               "ipv4-addr", "autonomous-system", "location",
                               "file">> \o FiveNotes
    /\ (mapApi = CTIP_API_C2 /\ FileEntityRaises(objCtipData))
         => /\ Len(mapOut.bundle) = 11
            /\ BundleTypes = <<"infrastructure", "malware", "network-traffic",
                               "ipv4-addr", "autonomous-system", "location">>
                             \o FiveNotes

\* a C2 record with a null CustomField2, an empty CustomField3 and a null
\* CustomField5 was converted into a bundle of 12 entities, the file entity
\* among them
C29_Witness ==
  /\ mapPc = "appended"
  /\ mapApi = CTIP_API_C2
  /\ objCtipData.CustomField2 = Null
  /\ objCtipData.CustomField3 = Str("")
  /\ objCtipData.CustomField5 = Null
  /\ Len(mapOut.bundle) = 12
  /\ mapOut.bundle[7].type = "file"

\* the non-empty 200 chunks dcuctiptsfapi has handled when it is at the top
\* of its loop: every earlier iteration sent one first-try request and went
\* round again, which only a non-empty 200 chunk does
ChunksHandled == nFirstTry

\* C30 (chunk files in dcuctiptsfapi): the chunk file counter gzFileCount,
\* whose value after the increment numbers the file, moves only in the
\* handling of a non-empty decoded 200 chunk with saving enabled, and then by
\* one, so the files are numbered 1, 2, 3, ... in download order; at the top
\* of the loop it equals the number of non-empty chunks handled so far with
\* saving enabled and is 0 with saving disabled; a zero-record chunk and a
\* response of another status leave it as it is. The running count is
\* increased by the size of the chunk even when saving the chunk raises, the
\* offset then staying where it was, and the function returns that count.
C30_ChunkFiles ==
  /\ [](script = "dcuctiptsfapi"
          => /\ ~saveCtipDataFiles => gzFileCount = 0
             /\ (pc = "loop" /\ saveCtipDataFiles) => gzFileCount = ChunksHandled
             /\ gzFileCount <= nFirstTry)
  /\ [][ script = "dcuctiptsfapi"
           => /\ (ds' = ds /\ gzFileCount' # gzFileCount)
                   => /\ ChunkInHand
                      /\ Len(apiResponse.chunk) > 0
                      /\ saveCtipDataFiles
                      /\ gzFileCount' = gzFileCount + 1
              /\ (HandlesChunk /\ Len(apiResponse.chunk) > 0)
                   => /\ gzFileCount' = gzFileCount + (IF saveCtipDataFiles THEN 1 ELSE 0)
                      /\ totalDownloadedDataCount'
                           = totalDownloadedDataCount + Len(apiResponse.chunk)
                      /\ exitPath' = "exception" => offset' = offset
              /\ (pc = "finally" /\ pc' = "main")
                   => returned' = Append(returned, totalDownloadedDataCount) ]_vars

\* saving enabled: the first chunk of one record was saved as file 1, saving
\* the second chunk as file 2 raised, and the function returned the count 2
\* with the offset still at 2
C30_Witness ==
  /\ script = "dcuctiptsfapi"
  /\ saveCtipDataFiles
  /\ pc = "main"
  /\ exitPath = "exception"
  /\ nFirstTry = 2
  /\ gzFileCount = 2
  /\ offset = 2
  /\ totalDownloadedDataCount = 2
  /\ returned = <<2>>

====
